---- MODULE Spec2Model ----
(***************************************************************************)
(* Feature-based image morphing (Beier-Neely field warping): a model of    *)
(* src/morph_algorithm.py and of the window that calls it.                 *)
(*                                                                         *)
(* Numbers.  The program computes in IEEE-754 binary floating point        *)
(* (np.float64, Python float): every arithmetic result is rounded to the   *)
(* nearest representable value, ties to even.  The model keeps exactly     *)
(* that arithmetic, with a mantissa of MantBits bits instead of 53 and an  *)
(* unbounded exponent (the inputs of the model stay far from overflow and  *)
(* underflow).  A number is a pair <<m, e>> standing for m * 2^e, kept in  *)
(* canonical form (m odd, or <<0, 0>>), so that equality of pairs is       *)
(* equality of numbers.                                                    *)
(*                                                                         *)
(* Rasters are single-channel (mode "L") arrays of uint8: every operation  *)
(* of the program treats the channels of a pixel independently.            *)
(*                                                                         *)
(* The operations are pure functions, so a behaviour is one call: the      *)
(* caller's arguments, then the operation and what it returned or raised.  *)
(* SpecWarp covers warp, interpolate and warpGrid on a pair of LineSets,   *)
(* SpecMerge the N-way calls, SpecBlend the blends of two rasters,         *)
(* SpecPair the pairwise calls next to the N-way calls on two inputs,      *)
(* SpecGrid generateGrid and warpGrid, SpecKernel the kernel on rows of    *)
(* points.  SpecFrame runs the calls on a heap of objects, to tell what    *)
(* each call builds and what it changes in place; SpecOrder runs the       *)
(* pixel loop of warp one pixel at a time, in any order.                   *)
(*                                                                         *)
(* The window (src/main.py, src/ui_helpers.py, src/animations.py) is the   *)
(* record app, changed by one handler at a time.  SpecGridLoop runs the    *)
(* loops of generate_grid one iteration at a time, SpecCanvas the drawing  *)
(* of lines on the canvases, SpecRun and SpecMergeThree the two warp       *)
(* buttons with the events that root.update() handles inside them,         *)
(* SpecPlay one animation and SpecEscape several with the Escape key.      *)
(***************************************************************************)
EXTENDS Integers, Sequences, FiniteSets

\* The arguments a caller holds, the operation it called last and what that
\* call returned or raised.
VARIABLES
    rasters,         \* the caller's rasters
    lineSets,        \* the caller's LineSets
    weightVec,       \* the caller's weight list
    alphaArg,        \* the pairwise interpolation / blend parameter
    warpParams,      \* the warp parameters [a, b, p]
    gridLines,       \* the grid lines handed to warp_grid_points
    samplesPerLine,  \* its samples_per_line
    op,              \* the operation called last ("none" before the first)
    result,          \* its result: [status |-> "ok", ...] or the exception
    app              \* the window of the application: the state variables
                     \* of main() and what its canvases show

vars == <<rasters, lineSets, weightVec, alphaArg, warpParams, gridLines,
          samplesPerLine, op, result, app>>

\* What no call of the core changes: its arguments, and the window.
inputs == <<rasters, lineSets, weightVec, alphaArg, warpParams, gridLines,
            samplesPerLine, app>>

\* The value of app where the core is called without the window.
NoWindow == [window |-> "none"]

\* Width of the mantissa of the modelled binary floating point.
MantBits == 12

\* The element of a one-element set, as a computed value: binding a value
\* with "x \in {e}" or Value({e}) stands for an assignment "x = e" of the
\* source, which computes e once.
Value(S) == CHOOSE v \in S : v = v

\* ------------------------------------------------------------------------
\* Floating point: helpers on integers
\* ------------------------------------------------------------------------

\* Number of bits of a natural number below 256.
BitLen8(n) ==
    IF n < 16
    THEN (IF n < 4 THEN (IF n < 2 THEN n ELSE 2) ELSE (IF n < 8 THEN 3 ELSE 4))
    ELSE (IF n < 64 THEN (IF n < 32 THEN 5 ELSE 6) ELSE (IF n < 128 THEN 7 ELSE 8))

\* Number of bits of the natural number n < 2^31 (0 for 0).
BitLen(n) ==
    IF n < 65536
    THEN (IF n < 256 THEN BitLen8(n) ELSE 8 + BitLen8(n \div 256))
    ELSE (IF n < 16777216 THEN 16 + BitLen8(n \div 65536)
          ELSE 24 + BitLen8(n \div 16777216))

Abs(n) == IF n < 0 THEN -n ELSE n

Sgn(n) == IF n < 0 THEN -1 ELSE IF n = 0 THEN 0 ELSE 1

RECURSIVE Canon(_, _)
\* m * 2^e in canonical form.
Canon(m, e) ==
    IF m = 0 THEN <<0, 0>>
    ELSE IF m % 2 = 0 THEN Canon(m \div 2, e + 1)
    ELSE <<m, e>>

\* q * 2^e with the k low bits of n dropped, q = n \div 2^k rounded to
\* nearest, ties to even, on the dropped bits r of n.
RoundBits(s, q, r, half, e) ==
    IF r > half \/ (r = half /\ q % 2 = 1) THEN Canon(s * (q + 1), e)
    ELSE Canon(s * q, e)

\* s * n * 2^e (n >= 0) rounded to MantBits bits, nearest, ties to even.
Rnd(s, n0, e) ==
    Value({IF BitLen(n) <= MantBits THEN Canon(s * n, e)
           ELSE Value({RoundBits(s, n \div (2 ^ k), n % (2 ^ k), 2 ^ (k - 1), e + k) :
                       k \in {BitLen(n) - MantBits}}) :
           n \in {n0}})

RECURSIVE IsqrtFrom(_, _)
\* Newton's iteration for the integer square root, from a start r >= sqrt(n).
IsqrtFrom(n, r) ==
    Value({IF t >= r THEN r ELSE IsqrtFrom(n, t) : t \in {(r + n \div r) \div 2}})

\* Largest r with r * r <= n, for 0 < n < 2^30.
Isqrt(n) == IsqrtFrom(n, 2 ^ ((BitLen(n) + 1) \div 2))

\* ------------------------------------------------------------------------
\* Floating point: the operations of the program's arithmetic
\* ------------------------------------------------------------------------

\* float(n) for an integer n.
FromInt(n) == Rnd(Sgn(n), Abs(n), 0)

Zero == <<0, 0>>

One == <<1, 0>>

FNeg(a) == Value({<<-v[1], v[2]>> : v \in {a}})

\* Position of the leading bit of a: 2^(Top(a)-1) <= |a| < 2^Top(a).
Top(a) == BitLen(Abs(a[1])) + a[2]

\* The smaller of two integers.
IMin(i, j) == IF i < j THEN i ELSE j

\* a + b for a # 0 and b # 0 whose leading bits are at most MantBits + 2
\* places apart: the exact sum, rounded.
AddNear(a, b, e0) ==
    Value({Rnd(Sgn(n), Abs(n), e0) :
           n \in {a[1] * 2 ^ (a[2] - e0) + b[1] * 2 ^ (b[2] - e0)}})

\* x + y
FAdd(x, y) ==
    Value({IF a[1] = 0 THEN b
           ELSE IF b[1] = 0 THEN a
           ELSE IF Top(a) - Top(b) > MantBits + 2 THEN a
           ELSE IF Top(b) - Top(a) > MantBits + 2 THEN b
           ELSE AddNear(a, b, IMin(a[2], b[2])) :
           a \in {x}, b \in {y}})

\* x - y
FSub(x, y) == FAdd(x, FNeg(y))

\* x * y
FMul(x, y) ==
    Value({Rnd(Sgn(a[1]) * Sgn(b[1]), Abs(a[1]) * Abs(b[1]), a[2] + b[2]) :
           a \in {x}, b \in {y}})

\* The quotient of the magnitudes A / B, both of exactly MantBits bits, as
\* <<q, sticky>>: q = floor(A * 2^(MantBits+1) / B) and whether that is inexact.
DivMag(A, B) ==
    Value({<<num \div B, IF num % B = 0 THEN 0 ELSE 1>> :
           num \in {A * 2 ^ (MantBits + 1)}})

\* x / y for y # 0 (every division of the program that the model reaches is
\* guarded, by the code or by the inputs).
FDiv(x, y) ==
    Value({IF a[1] = 0 THEN Zero
           ELSE Value({Value({Rnd(Sgn(a[1]) * Sgn(b[1]), 2 * qs[1] + qs[2],
                                  (a[2] - sh[1]) - (b[2] - sh[2])
                                      - (MantBits + 1) - 1) :
                              qs \in {DivMag(Abs(a[1]) * 2 ^ sh[1],
                                             Abs(b[1]) * 2 ^ sh[2])}}) :
                       sh \in {<<MantBits - BitLen(Abs(a[1])),
                                 MantBits - BitLen(Abs(b[1]))>>}}) :
           a \in {x}, b \in {y}})

\* The shift s that gives m * 2^s about 2 * MantBits + 2 bits and leaves the
\* exponent e - s even.
SqrtShift(m, e) ==
    Value({IF (e - s0) % 2 = 0 THEN s0 ELSE s0 + 1 :
           s0 \in {(2 * MantBits + 2) - BitLen(m)}})

\* sqrt(x) for x >= 0.
FSqrt(x) ==
    Value({IF a[1] = 0 THEN Zero
           ELSE Value({Value({Rnd(1, 2 * r + (IF r * r = a[1] * 2 ^ s THEN 0 ELSE 1),
                                  ((a[2] - s) \div 2) - 1) :
                              r \in {Isqrt(a[1] * 2 ^ s)}}) :
                       s \in {SqrtShift(a[1], a[2])}}) :
           a \in {x}})

\* x < y, x <= y
FLt(x, y) == FSub(x, y)[1] < 0

FLe(x, y) == FSub(x, y)[1] <= 0

FAbs(a) == Value({<<Abs(v[1]), v[2]>> : v \in {a}})

FMax(x, y) == Value({IF FLt(a, b) THEN b ELSE a : a \in {x}, b \in {y}})

FMin(x, y) == Value({IF FLt(b, a) THEN b ELSE a : a \in {x}, b \in {y}})

RECURSIVE FPow(_, _)
\* x ** k for a natural exponent k; x ** 0 is 1 for every x, 0 included.
FPow(x, k) == IF k = 0 THEN One ELSE FMul(FPow(x, k - 1), x)

\* int(x): truncation towards zero.
Trunc(x) ==
    Value({IF a[2] >= 0 THEN a[1] * 2 ^ a[2]
           ELSE IF -a[2] > 30 THEN 0
           ELSE Sgn(a[1]) * (Abs(a[1]) \div (2 ^ (-a[2]))) :
           a \in {x}})

\* ndarray.astype(np.uint8) of a float: truncation, then the low 8 bits.
AsUint8(x) == Trunc(x) % 256

\* ------------------------------------------------------------------------
\* Vectors (np.array of two floats)
\* ------------------------------------------------------------------------

\* np.array(P, dtype=float) of a point given with integer coordinates.
Pt(x, y) == <<FromInt(x), FromInt(y)>>

VSub(A0, B0) ==
    Value({<<FSub(A[1], B[1]), FSub(A[2], B[2])>> : A \in {A0}, B \in {B0}})

VAdd(A0, B0) ==
    Value({<<FAdd(A[1], B[1]), FAdd(A[2], B[2])>> : A \in {A0}, B \in {B0}})

VScale(k0, A0) ==
    Value({<<FMul(k, A[1]), FMul(k, A[2])>> : k \in {k0}, A \in {A0}})

VDivS(A0, k0) ==
    Value({<<FDiv(A[1], k), FDiv(A[2], k)>> : A \in {A0}, k \in {k0}})

\* np.dot(A, B)
Dot(A0, B0) ==
    Value({FAdd(FMul(A[1], B[1]), FMul(A[2], B[2])) : A \in {A0}, B \in {B0}})

\* np.linalg.norm(A)
Norm(A0) == Value({FSqrt(Dot(A, A)) : A \in {A0}})

\* Perpendicular vector (rotate by 90 degrees): [-A[1], A[0]] in the source.
Perp(A0) == Value({<<FNeg(A[2]), A[1]>> : A \in {A0}})

\* The degenerate-line threshold 1e-6.
Eps == FDiv(One, FromInt(1000000))

\* ------------------------------------------------------------------------
\* Line geometry
\* ------------------------------------------------------------------------

\* The two coordinates of X relative to a line PQ of length length_PQ that
\* is not degenerate.
UvOf(X, P, PQ, length_PQ) ==
    <<FDiv(Dot(VSub(X, P), PQ), FMul(length_PQ, length_PQ)),
      FDiv(Dot(VSub(X, P), Perp(PQ)), length_PQ)>>

\* A faulty variant of compute_uv, whose fallback for a degenerate line is
\* (1, 0).
ComputeUvFallbackOne(X, P, Q) ==
    Value({Value({IF FLt(length_PQ, Eps) THEN <<One, Zero>>
                  ELSE UvOf(X, P, PQ, length_PQ) :
                  length_PQ \in {Norm(PQ)}}) :
           PQ \in {VSub(Q, P)}})

\* compute_uv(X, P, Q): <<u, v>> of X relative to the line PQ.
compute_uv(X, P, Q) ==
    Value({Value({IF FLt(length_PQ, Eps) THEN <<Zero, Zero>>
                  ELSE UvOf(X, P, PQ, length_PQ) :
                  length_PQ \in {Norm(PQ)}}) :
           PQ \in {VSub(Q, P)}})

\* A faulty variant of compute_X_prime, which does not divide the
\* perpendicular by the length of the line.
ComputeXPrimeUnnormalized(u, v, P_prime, Q_prime) ==
    Value({Value({IF FLt(length_PQ_prime, Eps) THEN P_prime
                  ELSE VAdd(VAdd(P_prime, VScale(u, PQ_prime)),
                            VScale(v, Perp(PQ_prime))) :
                  length_PQ_prime \in {Norm(PQ_prime)}}) :
           PQ_prime \in {VSub(Q_prime, P_prime)}})

\* compute_X_prime(u, v, P', Q'): the point with coordinates (u, v) relative
\* to the line P'Q'.
compute_X_prime(u, v, P_prime, Q_prime) ==
    Value({Value({IF FLt(length_PQ_prime, Eps) THEN P_prime
                  ELSE VAdd(VAdd(P_prime, VScale(u, PQ_prime)),
                            VScale(v, VDivS(Perp(PQ_prime), length_PQ_prime))) :
                  length_PQ_prime \in {Norm(PQ_prime)}}) :
           PQ_prime \in {VSub(Q_prime, P_prime)}})

\* ------------------------------------------------------------------------
\* Multi-line warp kernel (the copy inside warp_image_with_lines)
\* ------------------------------------------------------------------------

\* Distance from X to the destination line PQ of length length_PQ, given u
\* and v of X.
LineDist(X, P, Q, length_PQ, u, v) ==
    IF FLt(length_PQ, Eps) THEN Norm(VSub(X, P))
    ELSE IF FLt(u, Zero) THEN Norm(VSub(X, P))
    ELSE IF FLt(One, u) THEN Norm(VSub(X, Q))
    ELSE FAbs(v)

\* weight = (length ** p) / ((a + dist) ** b)
LineWeight(length_PQ, dist, a, b, p) ==
    FDiv(FPow(length_PQ, p), FPow(FAdd(a, dist), b))

\* The body of the loop for one pair of lines: <<D_i, weight>>.
LineTerm(X, P, Q, P_prime, Q_prime, a, b, p) ==
    Value({<<VSub(compute_X_prime(uv[1], uv[2], P_prime, Q_prime), X),
             LineWeight(length_PQ,
                        LineDist(X, P, Q, length_PQ, uv[1], uv[2]), a, b, p)>> :
           uv \in {compute_uv(X, P, Q)}, length_PQ \in {Norm(VSub(Q, P))}})

RECURSIVE KernelLoop(_, _, _, _, _, _, _, _)
\* The loop over the destination lines i .. len(dest_lines): returns
\* <<DSUM, weightsum>>.  Lines are numbered from 1 here, from 0 in the source.
KernelLoop(X, source_lines, dest_lines, a, b, p, i, acc) ==
    IF i > Len(dest_lines) THEN acc
    ELSE Value({KernelLoop(X, source_lines, dest_lines, a, b, p, i + 1, next) :
                next \in {Value({<<VAdd(acc[1], VScale(t[2], t[1])),
                                   FAdd(acc[2], t[2])>> :
                                 t \in {LineTerm(X, dest_lines[i][1],
                                                 dest_lines[i][2],
                                                 source_lines[i][1],
                                                 source_lines[i][2], a, b, p)}})}})

\* The source position X_source for the destination pixel X.
WarpKernel(X0, source_lines, dest_lines, a, b, p) ==
    Value({Value({IF FLt(Zero, acc[2]) THEN VAdd(X, VDivS(acc[1], acc[2]))
                  ELSE X :
                  acc \in {KernelLoop(X, source_lines, dest_lines, a, b, p, 1,
                                      <<(<<Zero, Zero>>), Zero>>)}}) :
           X \in {X0}})

\* ------------------------------------------------------------------------
\* Resampler (the sampling code at the end of the pixel loop)
\* ------------------------------------------------------------------------

\* A faulty variant of Clamp, which clamps to n instead of n - 1.
ClampToSize(c, n) == FMax(Zero, FMin(FromInt(n), c))

\* max(0, min(n - 1, c))
Clamp(c, n) == FMax(Zero, FMin(FromInt(n - 1), c))

\* src_array[y, x]: an index i of an axis of length n is read at i when
\* 0 <= i < n and at n + i when -n <= i < 0; any other index raises.
IndexInside(i, n) == -n <= i /\ i < n

PixelAt(src, y, x) == src.px[y % src.h][x % src.w]

\* Whether the clamped position takes the bilinear branch.
TakesBilinear(src, src_x, src_y) ==
    /\ FLe(Zero, src_x) /\ FLt(src_x, FromInt(src.w - 1))
    /\ FLe(Zero, src_y) /\ FLt(src_y, FromInt(src.h - 1))

\* The indices <<row, column>> of src_array read for the clamped position
\* (src_x, src_y): x0, x1 = x0 + 1, y0, y1 = y0 + 1 in the bilinear branch,
\* the truncated position in the other branch.
SampleReads(src, src_x, src_y) ==
    Value({IF TakesBilinear(src, src_x, src_y)
           THEN {<<y0, x0>>, <<y0, x0 + 1>>, <<y0 + 1, x0>>, <<y0 + 1, x0 + 1>>}
           ELSE {<<y0, x0>>} :
           x0 \in {Trunc(src_x)}, y0 \in {Trunc(src_y)}})

\* The value that stands for a pixel whose computation raised IndexError.
Raised == -1

\* The bilinear mix of the four neighbours of (x0 + dx, y0 + dy).
Bilinear(src, x0, y0, dx, dy, mx, my) ==
    FAdd(FAdd(FAdd(
        FMul(FMul(mx, my), FromInt(PixelAt(src, y0, x0))),
        FMul(FMul(dx, my), FromInt(PixelAt(src, y0, x0 + 1)))),
        FMul(FMul(mx, dy), FromInt(PixelAt(src, y0 + 1, x0)))),
        FMul(FMul(dx, dy), FromInt(PixelAt(src, y0 + 1, x0 + 1))))

\* The interpolated pixel at the clamped position (src_x, src_y), whose
\* integer parts are x0 and y0.
SampleAt(src, src_x, src_y, x0, y0) ==
    Value({AsUint8(Bilinear(src, x0, y0, dx, dy, FSub(One, dx), FSub(One, dy))) :
           dx \in {FSub(src_x, FromInt(x0))}, dy \in {FSub(src_y, FromInt(y0))}})

\* The output pixel for the source position pos in the raster src, or
\* Raised when an index read lies outside the raster.
Sample(src, pos) ==
    Value({IF \E r \in SampleReads(src, src_x, src_y) :
                 ~(IndexInside(r[1], src.h) /\ IndexInside(r[2], src.w))
           THEN Raised
           ELSE IF TakesBilinear(src, src_x, src_y)
           THEN SampleAt(src, src_x, src_y, Trunc(src_x), Trunc(src_y))
           ELSE PixelAt(src, Trunc(src_y), Trunc(src_x)) :
           src_x \in {Clamp(pos[1], src.w)}, src_y \in {Clamp(pos[2], src.h)}})

\* ------------------------------------------------------------------------
\* Raster warp
\* ------------------------------------------------------------------------

\* A faulty variant of WarpPixel, which tests the source lines instead of
\* the destination lines before copying the pixel.
WarpPixelSourceTest(src, source_lines, dest_lines, a, b, p, x, y) ==
    IF Len(source_lines) = 0 THEN <<src.px[y][x], 0>>
    ELSE Value({<<Sample(src, X_source), 1>> :
                  X_source \in {WarpKernel(Pt(x, y), source_lines, dest_lines,
                                            a, b, p)}})

\* What the pixel loop does for the destination pixel (x, y): the output
\* pixel, and 1 when the kernel and the resampler ran for it (0 when the
\* pixel was copied because there are no destination lines).
WarpPixel(src, source_lines, dest_lines, a, b, p, x, y) ==
    IF Len(dest_lines) = 0 THEN <<src.px[y][x], 0>>
    ELSE Value({<<Sample(src, X_source), 1>> :
                  X_source \in {WarpKernel(Pt(x, y), source_lines, dest_lines,
                                            a, b, p)}})

\* A faulty variant of PixelValue, which samples the output array in place
\* of the source array.
PixelValueInPlace(output_array, src, source_lines, dest_lines, a, b, p, x, y) ==
    WarpPixel(output_array, source_lines, dest_lines, a, b, p, x, y)[1]

\* The value one run of the loop body stores into output_array[y, x]; the
\* body reads src_array, the lines and the parameters, never output_array.
PixelValue(output_array, src, source_lines, dest_lines, a, b, p, x, y) ==
    WarpPixel(src, source_lines, dest_lines, a, b, p, x, y)[1]

\* Whether the pixel loop reads source_lines[i] past the end of the list
\* (an IndexError at the first pixel).
WarpIndexError(src, source_lines, dest_lines) ==
    /\ src.w > 0 /\ src.h > 0
    /\ Len(dest_lines) > Len(source_lines)

RECURSIVE SumTo(_, _)
\* f[0] + ... + f[n - 1]
SumTo(f, n) == IF n = 0 THEN 0 ELSE SumTo(f, n - 1) + f[n - 1]

\* The result of a warp whose pixel loop produced out[y][x] = <<pixel, ran>>.
WarpResult(src, out) ==
    [status |-> "ok",
     image  |-> [w  |-> src.w, h |-> src.h,
                 px |-> [y \in 0..(src.h - 1) |->
                           [x \in 0..(src.w - 1) |-> out[y][x][1]]]],
     evals  |-> SumTo([y \in 0..(src.h - 1) |->
                         SumTo([x \in 0..(src.w - 1) |-> out[y][x][2]], src.w)],
                      src.h)]

\* warp_image_with_lines(src_image, source_lines, dest_lines, a, b, p).
\* evals counts the pixels for which the kernel and the resampler ran.
warp_image_with_lines(src0, source_lines0, dest_lines0, a0, b, p) ==
    Value({IF WarpIndexError(src, source_lines, dest_lines)
           THEN [status |-> "IndexError"]
           ELSE Value({IF \E y \in 0..(src.h - 1), x \in 0..(src.w - 1) :
                             out[y][x][1] = Raised
                       THEN [status |-> "IndexError"]
                       ELSE WarpResult(src, out) :
                       out \in {[y \in 0..(src.h - 1) |-> [x \in 0..(src.w - 1) |->
                                   WarpPixel(src, source_lines, dest_lines,
                                             a, b, p, x, y)]]}}) :
           src \in {src0}, source_lines \in {source_lines0},
           dest_lines \in {dest_lines0}, a \in {a0}})

\* ------------------------------------------------------------------------
\* Pairwise line-set interpolation and raster blend
\* ------------------------------------------------------------------------

\* A faulty variant of Lerp, which leaves out the factor (1 - alpha).
LerpNoComplement(c1, c2, alpha) == FAdd(c1, FMul(alpha, c2))

\* (1 - alpha) * c1 + alpha * c2
Lerp(c1, c2, alpha) == FAdd(FMul(FSub(One, alpha), c1), FMul(alpha, c2))

LerpPt(A, B, alpha) == <<Lerp(A[1], B[1], alpha), Lerp(A[2], B[2], alpha)>>

\* A faulty variant of interpolate_lines, with the two weights exchanged.
InterpolateSwapped(lines1, lines2, alpha) ==
    IF Len(lines1) > Len(lines2) THEN [status |-> "IndexError"]
    ELSE [status |-> "ok",
          lines  |-> Value({[i \in 1..Len(lines1) |->
                               <<LerpPt(lines2[i][1], lines1[i][1], alpha),
                                 LerpPt(lines2[i][2], lines1[i][2], alpha)>>]})]

\* interpolate_lines(lines1, lines2, alpha): the loop runs over lines1 and
\* reads lines2[i], an IndexError when lines2 is shorter.
interpolate_lines(lines1, lines2, alpha) ==
    IF Len(lines1) > Len(lines2) THEN [status |-> "IndexError"]
    ELSE [status |-> "ok",
          lines  |-> Value({[i \in 1..Len(lines1) |->
                               <<LerpPt(lines1[i][1], lines2[i][1], alpha),
                                 LerpPt(lines1[i][2], lines2[i][2], alpha)>>]})]

\* A faulty variant of blend_images, with the two weights exchanged.
BlendSwapped(img1, img2, alpha) ==
    IF img1.w # img2.w \/ img1.h # img2.h THEN [status |-> "ValueError"]
    ELSE [status |-> "ok",
          image  |-> [w  |-> img1.w, h |-> img1.h,
                      px |-> Value({[y \in 0..(img1.h - 1) |->
                                      [x \in 0..(img1.w - 1) |->
                                         AsUint8(Lerp(FromInt(img2.px[y][x]),
                                                      FromInt(img1.px[y][x]),
                                                      alpha))]]})]]

\* blend_images(img1, img2, alpha); arrays of different shape do not add
\* (the rasters of the model have no side of length 1, which numpy would
\* stretch to the other array's length).
blend_images(img1, img2, alpha) ==
    IF img1.w # img2.w \/ img1.h # img2.h THEN [status |-> "ValueError"]
    ELSE [status |-> "ok",
          image  |-> [w  |-> img1.w, h |-> img1.h,
                      px |-> Value({[y \in 0..(img1.h - 1) |->
                                      [x \in 0..(img1.w - 1) |->
                                         AsUint8(Lerp(FromInt(img1.px[y][x]),
                                                      FromInt(img2.px[y][x]),
                                                      alpha))]]})]]

\* ------------------------------------------------------------------------
\* Weight normalization (three copies in the source)
\* ------------------------------------------------------------------------

RECURSIVE FSum(_, _)
\* np.sum of the first n entries of the sequence ws, summed in order.
FSum(ws, n) == IF n = 0 THEN Zero ELSE FAdd(FSum(ws, n - 1), ws[n])

\* A faulty variant of blend_normalize, which divides by the number of
\* weights instead of their sum.
NormalizeByCount(ws0) ==
    Value({[i \in 1..Len(ws) |-> FDiv(ws[i], FromInt(Len(ws)))] : ws \in {ws0}})

\* The copy in blend_multiple_images.
blend_normalize(ws0) ==
    Value({IF FLt(Zero, weight_sum)
           THEN [i \in 1..Len(ws) |-> FDiv(ws[i], weight_sum)]
           ELSE [i \in 1..Len(ws) |-> FDiv(One, FromInt(Len(ws)))] :
           weight_sum \in {FSum(ws0, Len(ws0))}, ws \in {ws0}})

\* The copy in interpolate_multiple_lines.
interp_normalize(ws0) ==
    Value({IF FLt(Zero, weight_sum)
           THEN [i \in 1..Len(ws) |-> FDiv(ws[i], weight_sum)]
           ELSE [i \in 1..Len(ws) |-> FDiv(One, FromInt(Len(ws)))] :
           weight_sum \in {FSum(ws0, Len(ws0))}, ws \in {ws0}})

\* The copy in merge_multiple_images.
merge_normalize(ws0) ==
    Value({IF FLt(Zero, weight_sum)
           THEN [i \in 1..Len(ws) |-> FDiv(ws[i], weight_sum)]
           ELSE [i \in 1..Len(ws) |-> FDiv(One, FromInt(Len(ws)))] :
           weight_sum \in {FSum(ws0, Len(ws0))}, ws \in {ws0}})

\* ------------------------------------------------------------------------
\* N-way blend and N-way line-set interpolation
\* ------------------------------------------------------------------------

RECURSIVE BlendAcc(_, _, _, _, _)
\* blended_arr[y, x] after adding weight * arr for the first n images.
BlendAcc(imgs, ws, n, x, y) ==
    IF n = 0 THEN Zero
    ELSE FAdd(BlendAcc(imgs, ws, n - 1, x, y),
              FMul(ws[n], FromInt(imgs[n].px[y][x])))

\* Whether all rasters have the shape of the first one (arrays of another
\* shape do not add to blended_arr; no raster of the model has a side of
\* length 1, which numpy would stretch).
SameShape(imgs) ==
    \A k \in 1..Len(imgs) : imgs[k].w = imgs[1].w /\ imgs[k].h = imgs[1].h

\* The weighted sum of the rasters imgs under the normalized weights nw.
BlendResult(imgs, nw) ==
    [status |-> "ok",
     used   |-> nw,
     image  |-> [w  |-> imgs[1].w, h |-> imgs[1].h,
                 px |-> Value({[y \in 0..(imgs[1].h - 1) |->
                                 [x \in 0..(imgs[1].w - 1) |->
                                    AsUint8(BlendAcc(imgs, nw, Len(imgs), x, y))]]})]]

\* blend_multiple_images(images, weights); used is the weight vector the
\* weighted sum is computed with.
blend_multiple_images(imgs0, ws0) ==
    Value({IF Len(imgs) = 0 THEN [status |-> "ValueError"]
           ELSE IF Len(imgs) # Len(ws) THEN [status |-> "ValueError"]
           ELSE IF ~SameShape(imgs) THEN [status |-> "ValueError"]
           ELSE Value({BlendResult(imgs, nw) : nw \in {blend_normalize(ws)}}) :
           imgs \in {imgs0}, ws \in {ws0}})

RECURSIVE AvgAcc(_, _, _, _, _)
\* P_avg (e = 1) or Q_avg (e = 2) of line line_idx after the first n sets.
AvgAcc(sets, ws, n, line_idx, e) ==
    IF n = 0 THEN <<Zero, Zero>>
    ELSE VAdd(AvgAcc(sets, ws, n - 1, line_idx, e),
              VScale(ws[n], sets[n][line_idx][e]))

\* The weighted average of the line sets under the normalized weights nw.
AvgResult(sets, nw) ==
    [status |-> "ok",
     used   |-> nw,
     lines  |-> Value({[i \in 1..Len(sets[1]) |->
                          <<AvgAcc(sets, nw, Len(sets), i, 1),
                            AvgAcc(sets, nw, Len(sets), i, 2)>>]})]

\* A faulty variant of interpolate_multiple_lines, which cuts every line set
\* to the length of the shortest one instead of rejecting unequal lengths.
InterpolateShortest(sets0, ws0) ==
    Value({IF Len(sets) = 0 THEN [status |-> "ValueError"]
           ELSE IF Len(sets) # Len(ws) THEN [status |-> "ValueError"]
           ELSE Value({AvgResult([k \in 1..Len(sets) |-> SubSeq(sets[k], 1, n)],
                                 interp_normalize(ws)) :
                       n \in {CHOOSE n \in {Len(sets[k]) : k \in 1..Len(sets)} :
                                 \A k \in 1..Len(sets) : n <= Len(sets[k])}}) :
           sets \in {sets0}, ws \in {ws0}})

\* interpolate_multiple_lines(line_sets, weights); used is the weight vector
\* the averages are computed with.
interpolate_multiple_lines(sets0, ws0) ==
    Value({IF Len(sets) = 0 THEN [status |-> "ValueError"]
           ELSE IF Len(sets) # Len(ws) THEN [status |-> "ValueError"]
           ELSE IF \E k \in 1..Len(sets) : Len(sets[k]) # Len(sets[1])
                THEN [status |-> "ValueError"]
           ELSE Value({AvgResult(sets, nw) : nw \in {interp_normalize(ws)}}) :
           sets \in {sets0}, ws \in {ws0}})

\* ------------------------------------------------------------------------
\* Merge orchestrator
\* ------------------------------------------------------------------------

\* images[i].resize(target_size, Image.Resampling.LANCZOS): the library's
\* resampling filter is outside the program; the model keeps the size it
\* delivers and picks the nearest source pixel.
Resize(img, w, h) ==
    [w  |-> w, h |-> h,
     px |-> [y \in 0..(h - 1) |-> [x \in 0..(w - 1) |->
               img.px[(y * img.h) \div h][(x * img.w) \div w]]]]

\* The feature lines of an image scaled by (scale_x, scale_y).
ScaleLines(lines, scale_x, scale_y) ==
    [i \in 1..Len(lines) |->
       << <<FMul(lines[i][1][1], scale_x), FMul(lines[i][1][2], scale_y)>>,
          <<FMul(lines[i][2][1], scale_x), FMul(lines[i][2][2], scale_y)>> >>]

\* resized_images of merge_multiple_images.
ResizedImages(imgs) ==
    [i \in 1..Len(imgs) |->
       IF imgs[i].w # imgs[1].w \/ imgs[i].h # imgs[1].h
       THEN Resize(imgs[i], imgs[1].w, imgs[1].h)
       ELSE imgs[i]]

\* adjusted_line_sets of merge_multiple_images.
AdjustedLineSets(imgs, sets) ==
    [i \in 1..Len(imgs) |->
       IF imgs[i].w # imgs[1].w \/ imgs[i].h # imgs[1].h
       THEN Value({ScaleLines(sets[i], sx, sy) :
                   sx \in {FDiv(FromInt(imgs[1].w), FromInt(imgs[i].w))},
                   sy \in {FDiv(FromInt(imgs[1].h), FromInt(imgs[i].h))}})
       ELSE sets[i]]

\* Step 3 and the return value, given the results of the N warps; used_geom
\* and used are the weight vectors the geometry and the blend were computed
\* with.
MergeBlend(warped, shared, nw) ==
    Value({IF merged.status # "ok"
           THEN [status |-> merged.status, warps |-> Len(warped)]
           ELSE [status |-> "ok",
                 merged |-> merged.image,
                 warped |-> [i \in 1..Len(warped) |-> warped[i].image],
                 shared |-> shared.lines,
                 used_geom |-> shared.used,
                 used   |-> merged.used,
                 warps  |-> Len(warped)] :
           merged \in {blend_multiple_images(
                          [i \in 1..Len(warped) |-> warped[i].image], nw)}})

\* A faulty variant of MergeWarp, which does not hand a, b and p on to the
\* warps, so that they run with the default parameters.
MergeWarpDefaults(resized, adjusted, shared, nw, a, b, p) ==
    Value({IF \E i \in 1..Len(warped) : warped[i].status # "ok"
           THEN [status |-> "IndexError", warps |-> 1]
           ELSE MergeBlend(warped, shared, nw) :
           warped \in {[i \in 1..Len(resized) |->
                          warp_image_with_lines(resized[i], adjusted[i],
                                                shared.lines,
                                                FDiv(One, FromInt(100)), 2, 0)]}})

\* Step 2: the loop of warps; the first warp that raises ends the call.
MergeWarp(resized, adjusted, shared, nw, a, b, p) ==
    Value({IF \E i \in 1..Len(warped) : warped[i].status # "ok"
           THEN Value({[status |-> warped[first].status, warps |-> first] :
                       first \in {CHOOSE i \in 1..Len(warped) :
                                     /\ warped[i].status # "ok"
                                     /\ \A j \in 1..(i - 1) :
                                           warped[j].status = "ok"}})
           ELSE MergeBlend(warped, shared, nw) :
           warped \in {[i \in 1..Len(resized) |->
                          warp_image_with_lines(resized[i], adjusted[i],
                                                shared.lines, a, b, p)]}})

\* A faulty variant of MergeShared, which computes the shared geometry with
\* equal weights instead of the weights of the blend.
MergeSharedUniform(resized, adjusted, nw, a, b, p) ==
    Value({IF shared.status # "ok" THEN [status |-> shared.status, warps |-> 0]
           ELSE MergeWarp(resized, adjusted, shared, nw, a, b, p) :
           shared \in {interpolate_multiple_lines(
                          adjusted, [i \in 1..Len(nw) |-> One])}})

\* Step 1 onwards, given the normalized weights and the resized inputs.
MergeShared(resized, adjusted, nw, a, b, p) ==
    Value({IF shared.status # "ok" THEN [status |-> shared.status, warps |-> 0]
           ELSE MergeWarp(resized, adjusted, shared, nw, a, b, p) :
           shared \in {interpolate_multiple_lines(adjusted, nw)}})

\* merge_multiple_images(images, line_sets, weights, a, b, p).  warps counts
\* the calls of warp_image_with_lines made before the function returned or
\* raised.
merge_multiple_images(imgs0, sets0, ws0, a0, b, p) ==
    Value({IF Len(imgs) = 0 THEN [status |-> "ValueError", warps |-> 0]
           ELSE IF ~(Len(imgs) = Len(sets) /\ Len(sets) = Len(ws))
                THEN [status |-> "ValueError", warps |-> 0]
           ELSE Value({MergeShared(resized, adjusted, nw, a, b, p) :
                       nw \in {merge_normalize(ws)},
                       resized \in {ResizedImages(imgs)},
                       adjusted \in {AdjustedLineSets(imgs, sets)}}) :
           imgs \in {imgs0}, sets \in {sets0}, ws \in {ws0}, a \in {a0}})

\* ------------------------------------------------------------------------
\* Grid sampler
\* ------------------------------------------------------------------------

RECURSIVE GridHorizontal(_, _, _, _)
\* The lines appended by the first while loop from the value y on.
GridHorizontal(width, height, grid_spacing, y) ==
    IF y <= height
    THEN << <<Pt(0, y), Pt(width, y)>> >>
             \o GridHorizontal(width, height, grid_spacing, y + grid_spacing)
    ELSE <<>>

RECURSIVE GridVertical(_, _, _, _)
\* The lines appended by the second while loop from the value x on.
GridVertical(width, height, grid_spacing, x) ==
    IF x <= width
    THEN << <<Pt(x, 0), Pt(x, height)>> >>
             \o GridVertical(width, height, grid_spacing, x + grid_spacing)
    ELSE <<>>

\* A faulty variant of generate_grid, which appends the vertical lines first.
GenerateGridVerticalFirst(width, height, grid_spacing) ==
    IF grid_spacing <= 0 /\ (height >= 0 \/ width >= 0)
    THEN [status |-> "NoReturn"]
    ELSE [status |-> "ok",
          lines  |-> GridVertical(width, height, grid_spacing, 0)
                         \o GridHorizontal(width, height, grid_spacing, 0)]

\* generate_grid(width, height, grid_spacing) on integers.  A loop that is
\* entered with grid_spacing <= 0 never ends.
generate_grid(width, height, grid_spacing) ==
    IF grid_spacing <= 0 /\ (height >= 0 \/ width >= 0)
    THEN [status |-> "NoReturn"]
    ELSE [status |-> "ok",
          lines  |-> GridHorizontal(width, height, grid_spacing, 0)
                         \o GridVertical(width, height, grid_spacing, 0)]

\* Distance and weight of the kernel copy inside warp_grid_points.
GridLineDist(X, P, Q, length_PQ, u, v) ==
    IF FLt(length_PQ, Eps) THEN Norm(VSub(X, P))
    ELSE IF FLt(u, Zero) THEN Norm(VSub(X, P))
    ELSE IF FLt(One, u) THEN Norm(VSub(X, Q))
    ELSE FAbs(v)

\* A faulty variant of GridLineWeight, which leaves the length of the line
\* out of the weight.
GridLineWeightNoLength(length_PQ, dist, a, b, p) ==
    FDiv(One, FPow(FAdd(a, dist), b))

GridLineWeight(length_PQ, dist, a, b, p) ==
    FDiv(FPow(length_PQ, p), FPow(FAdd(a, dist), b))

\* The body of the loop for one pair of lines: <<D_i, weight>>.
GridLineTerm(X, P, Q, P_prime, Q_prime, a, b, p) ==
    Value({<<VSub(compute_X_prime(uv[1], uv[2], P_prime, Q_prime), X),
             GridLineWeight(length_PQ,
                            GridLineDist(X, P, Q, length_PQ, uv[1], uv[2]),
                            a, b, p)>> :
           uv \in {compute_uv(X, P, Q)}, length_PQ \in {Norm(VSub(Q, P))}})

RECURSIVE GridKernelLoop(_, _, _, _, _, _, _, _)
\* The loop over the destination lines inside warp_grid_points.
GridKernelLoop(X, source_lines, dest_lines, a, b, p, i, acc) ==
    IF i > Len(dest_lines) THEN acc
    ELSE Value({GridKernelLoop(X, source_lines, dest_lines, a, b, p, i + 1, next) :
                next \in {Value({<<VAdd(acc[1], VScale(t[2], t[1])),
                                   FAdd(acc[2], t[2])>> :
                                 t \in {GridLineTerm(X, dest_lines[i][1],
                                                     dest_lines[i][2],
                                                     source_lines[i][1],
                                                     source_lines[i][2],
                                                     a, b, p)}})}})

\* A faulty variant of GridKernel, whose position is the origin when the
\* weight sum is 0.
GridKernelOriginFallback(X, source_lines, dest_lines, a, b, p) ==
    Value({IF FLt(Zero, acc[2]) THEN VAdd(X, VDivS(acc[1], acc[2]))
           ELSE <<Zero, Zero>> :
           acc \in {GridKernelLoop(X, source_lines, dest_lines, a, b, p, 1,
                                   <<(<<Zero, Zero>>), Zero>>)}})

\* X_warped for the sample point X.
GridKernel(X, source_lines, dest_lines, a, b, p) ==
    Value({IF FLt(Zero, acc[2]) THEN VAdd(X, VDivS(acc[1], acc[2])) ELSE X :
           acc \in {GridKernelLoop(X, source_lines, dest_lines, a, b, p, 1,
                                   <<(<<Zero, Zero>>), Zero>>)}})

\* A faulty variant of GridSample, whose samples stop short of Q.
GridSampleOpenEnd(grid_line, i, samples_per_line) ==
    Value({<<FAdd(FMul(grid_line[1][1], FSub(One, t)), FMul(grid_line[2][1], t)),
             FAdd(FMul(grid_line[1][2], FSub(One, t)), FMul(grid_line[2][2], t))>> :
           t \in {FDiv(FromInt(i), FromInt(samples_per_line + 1))}})

\* The i-th sample (i = 0 .. samples_per_line) along the grid line.
GridSample(grid_line, i, samples_per_line) ==
    Value({<<FAdd(FMul(grid_line[1][1], FSub(One, t)), FMul(grid_line[2][1], t)),
             FAdd(FMul(grid_line[1][2], FSub(One, t)), FMul(grid_line[2][2], t))>> :
           t \in {FDiv(FromInt(i), FromInt(samples_per_line))}})

\* The warped point appended for the sample X.
GridPoint(X, source_lines, dest_lines, a, b, p) ==
    IF Len(dest_lines) = 0 THEN X
    ELSE GridKernel(X, source_lines, dest_lines, a, b, p)

\* The polylines of a call that raises nothing.
GridPolylines(grid_lines, source_lines, dest_lines, a, b, p, samples_per_line) ==
    [g \in 1..Len(grid_lines) |->
       [j \in 1..(samples_per_line + 1) |->
          Value({GridPoint(X, source_lines, dest_lines, a, b, p) :
                 X \in {GridSample(grid_lines[g], j - 1, samples_per_line)}})]]

\* warp_grid_points(grid_lines, source_lines, dest_lines, a, b, p,
\* samples_per_line): one polyline per grid line.  With no grid line no
\* loop body runs; the first sample divides by samples_per_line, and with
\* destination lines the kernel reads source_lines[i].
warp_grid_points(grid_lines0, source_lines0, dest_lines0, a0, b, p, samples_per_line) ==
    Value({IF Len(grid_lines) = 0 THEN [status |-> "ok", polylines |-> <<>>]
           ELSE IF samples_per_line = 0 THEN [status |-> "ZeroDivisionError"]
           ELSE IF Len(dest_lines) > Len(source_lines)
                THEN [status |-> "IndexError"]
           ELSE [status    |-> "ok",
                 polylines |-> Value({GridPolylines(grid_lines, source_lines,
                                                    dest_lines, a, b, p,
                                                    samples_per_line)})] :
           grid_lines \in {grid_lines0}, source_lines \in {source_lines0},
           dest_lines \in {dest_lines0}, a \in {a0}})

\* ------------------------------------------------------------------------
\* Objects: what every operation allocates and what it stores into.  The
\* heap is the sequence of the objects built so far and an object is known
\* by its index in it; a list of objects is a sequence of indices.  Every
\* operation returns [status, heap, ret]: the heap after the call and the
\* indices of the objects it returns.
\* ------------------------------------------------------------------------

\* A statement that builds a new object, and one that changes an object in
\* place.
Alloc(value) == [kind |-> "alloc", target |-> 0, value |-> value]

Store(target, value) == [kind |-> "store", target |-> target, value |-> value]

RECURSIVE Run(_, _, _)
\* The heap after the statements effects[i], effects[i + 1], ...
Run(heap, effects, i) ==
    IF i > Len(effects) THEN heap
    ELSE Run(IF effects[i].kind = "alloc" THEN Append(heap, effects[i].value)
             ELSE [heap EXCEPT ![effects[i].target] = effects[i].value],
             effects, i + 1)

\* The heap h after the statements effects, with the status and the returned
\* objects of the call.
Outcome(status, h, effects0, ret) ==
    Value({[status |-> status, heap |-> Run(h, effects, 1), ret |-> ret] :
           effects \in {effects0}})

\* np.zeros_like(array)
ZerosLike(img) ==
    [w |-> img.w, h |-> img.h,
     px |-> [y \in 0..(img.h - 1) |-> [x \in 0..(img.w - 1) |-> 0]]]

\* The objects with the indices ids.
Deref(h, ids) == [k \in 1..Len(ids) |-> h[ids[k]]]

\* warp_image_with_lines: src_array, output_array, the pixel loop storing
\* into output_array, and the image built from it.
warp_call(h0, img, src, dst, a0, b, p) ==
    Value({Value({Outcome(r.status, h,
                          <<Alloc(h[img]), Alloc(ZerosLike(h[img]))>>
                              \o (IF r.status = "ok"
                                  THEN <<Store(Len(h) + 2, r.image), Alloc(r.image)>>
                                  ELSE <<>>),
                          IF r.status = "ok" THEN <<Len(h) + 3>> ELSE <<>>) :
                  r \in {warp_image_with_lines(h[img], h[src], h[dst], a, b, p)}}) :
           h \in {h0}, a \in {a0}})

\* interpolate_lines: lines_interp and the appends to it.
interpolate_call(h0, lines1, lines2, alpha0) ==
    Value({Value({Outcome(r.status, h,
                          <<Alloc(<<>>)>>
                              \o (IF r.status = "ok"
                                  THEN <<Store(Len(h) + 1, r.lines)>> ELSE <<>>),
                          IF r.status = "ok" THEN <<Len(h) + 1>> ELSE <<>>) :
                  r \in {interpolate_lines(h[lines1], h[lines2], alpha)}}) :
           h \in {h0}, alpha \in {alpha0}})

\* blend_images: arr1, arr2, blended_arr and the image built from it.
blend_call(h0, img1, img2, alpha0) ==
    Value({Value({Outcome(r.status, h,
                          <<Alloc(h[img1]), Alloc(h[img2])>>
                              \o (IF r.status = "ok"
                                  THEN <<Alloc(r.image), Alloc(r.image)>>
                                  ELSE <<>>),
                          IF r.status = "ok" THEN <<Len(h) + 4>> ELSE <<>>) :
                  r \in {blend_images(h[img1], h[img2], alpha)}}) :
           h \in {h0}, alpha \in {alpha0}})

\* blend_multiple_images: the array of the weights, the normalized weights,
\* arrays, blended_arr, the additions to it, and the image built from it.
blend_many_call(h0, images, weights) ==
    Value({Value({Outcome(r.status, h,
                          IF r.status = "ok"
                          THEN <<Alloc(h[weights]), Alloc(r.used),
                                 Alloc(Deref(h, h[images])),
                                 Alloc(ZerosLike(h[h[images][1]])),
                                 Store(Len(h) + 4, r.image), Alloc(r.image)>>
                          ELSE <<>>,
                          IF r.status = "ok" THEN <<Len(h) + 5>> ELSE <<>>) :
                  r \in {blend_multiple_images(Deref(h, h[images]), h[weights])}}) :
           h \in {h0}})

\* interpolate_multiple_lines: the array of the weights, the normalized
\* weights, shared_lines and the appends to it.
interpolate_many_call(h0, line_sets, weights) ==
    Value({Value({Outcome(r.status, h,
                          IF r.status = "ok"
                          THEN <<Alloc(h[weights]), Alloc(r.used), Alloc(<<>>),
                                 Store(Len(h) + 3, r.lines)>>
                          ELSE <<>>,
                          IF r.status = "ok" THEN <<Len(h) + 3>> ELSE <<>>) :
                  r \in {interpolate_multiple_lines(Deref(h, h[line_sets]),
                                                    h[weights])}}) :
           h \in {h0}})

\* generate_grid: grid_lines and the appends to it.
generate_grid_call(h0, width, height, grid_spacing) ==
    Value({Value({Outcome(r.status, h,
                          <<Alloc(<<>>)>>
                              \o (IF r.status = "ok"
                                  THEN <<Store(Len(h) + 1, r.lines)>> ELSE <<>>),
                          IF r.status = "ok" THEN <<Len(h) + 1>> ELSE <<>>) :
                  r \in {generate_grid(width, height, grid_spacing)}}) :
           h \in {h0}})

\* warp_grid_points: warped_grid_lines and the appends to it.
warp_grid_call(h0, grid_lines, src, dst, a0, b, p, samples_per_line) ==
    Value({Value({Outcome(r.status, h,
                          <<Alloc(<<>>)>>
                              \o (IF r.status = "ok"
                                  THEN <<Store(Len(h) + 1, r.polylines)>>
                                  ELSE <<>>),
                          IF r.status = "ok" THEN <<Len(h) + 1>> ELSE <<>>) :
                  r \in {warp_grid_points(h[grid_lines], h[src], h[dst], a, b, p,
                                          samples_per_line)}}) :
           h \in {h0}, a \in {a0}})

\* A faulty variant of MergeResizeStep, which resizes the image and scales
\* its lines in place.
MergeResizeInPlace(h, img, lines, target, resized_images, adjusted_line_sets) ==
    <<Store(img, Resize(h[img], target.w, target.h)),
      Store(resized_images, Append(h[resized_images], img)),
      Store(lines, ScaleLines(h[lines],
                              FDiv(FromInt(target.w), FromInt(h[img].w)),
                              FDiv(FromInt(target.h), FromInt(h[img].h)))),
      Store(adjusted_line_sets, Append(h[adjusted_line_sets], lines))>>

\* The statements of the loop body for an image of another size than the
\* first: resized_img, scaled_lines and the appends of the two.
MergeResizeStep(h, img, lines, target, resized_images, adjusted_line_sets) ==
    <<Alloc(Resize(h[img], target.w, target.h)),
      Store(resized_images, Append(h[resized_images], Len(h) + 1)),
      Alloc(ScaleLines(h[lines],
                       FDiv(FromInt(target.w), FromInt(h[img].w)),
                       FDiv(FromInt(target.h), FromInt(h[img].h)))),
      Store(adjusted_line_sets, Append(h[adjusted_line_sets], Len(h) + 2))>>

\* The statements of the loop body for an image of the size of the first:
\* the image and its LineSet themselves are appended.
MergeKeepStep(h, img, lines, resized_images, adjusted_line_sets) ==
    <<Store(resized_images, Append(h[resized_images], img)),
      Store(adjusted_line_sets, Append(h[adjusted_line_sets], lines))>>

RECURSIVE MergeResizeLoop(_, _, _, _, _, _)
\* The heap after the loop over images[i], images[i + 1], ...
MergeResizeLoop(h0, images, line_sets, resized_images, adjusted_line_sets, i) ==
    IF i > Len(h0[images]) THEN h0
    ELSE Value({MergeResizeLoop(next, images, line_sets, resized_images,
                                adjusted_line_sets, i + 1) :
                next \in {Value({Value({
                    Run(h, IF h[img].w # target.w \/ h[img].h # target.h
                           THEN MergeResizeStep(h, img, h[line_sets][i], target,
                                                resized_images, adjusted_line_sets)
                           ELSE MergeKeepStep(h, img, h[line_sets][i],
                                              resized_images, adjusted_line_sets),
                        1) :
                    img \in {h[images][i]}, target \in {h[h[images][1]]}}) :
                    h \in {h0}})}})

\* merged_image = blend_multiple_images(warped_images, weights), and the
\* objects returned: the merged image, warped_images with its images, and
\* shared_lines.
MergeBlendCall(h0, warped_images, weights, shared) ==
    Value({Value({[status |-> merged.status,
                   heap   |-> merged.heap,
                   ret    |-> IF merged.status = "ok"
                              THEN merged.ret \o <<warped_images>>
                                       \o h[warped_images] \o <<shared>>
                              ELSE <<>>] :
                  merged \in {blend_many_call(h, warped_images, weights)}}) :
           h \in {h0}})

RECURSIVE MergeWarpLoop(_, _, _, _, _, _, _, _, _, _)
\* The loop of warps from image i on, each appended to warped_images, and
\* the blend after it; resized and adjusted are the lists resized_images
\* and adjusted_line_sets, warped is the list warped_images.
MergeWarpLoop(h0, resized, adjusted, shared, warped, weights, a0, b, p, i) ==
    IF i > Len(h0[resized])
    THEN MergeBlendCall(h0, warped, weights, shared)
    ELSE Value({IF w.status # "ok"
                THEN [status |-> w.status, heap |-> w.heap, ret |-> <<>>]
                ELSE Value({MergeWarpLoop(next, resized, adjusted, shared, warped,
                                          weights, a, b, p, i + 1) :
                            next \in {[w.heap EXCEPT ![warped] =
                                          Append(@, w.ret[1])]}}) :
                w \in {warp_call(h0, h0[resized][i], h0[adjusted][i], shared,
                                 a0, b, p)},
                a \in {a0}})

\* Steps 1 to 3, given the heap after the resize loop: shared_lines, then
\* the list warped_images and the warps.
MergeSharedCall(h0, resized_images, adjusted_line_sets, weights, a, b, p) ==
    Value({IF shared.status # "ok"
           THEN [status |-> shared.status, heap |-> shared.heap, ret |-> <<>>]
           ELSE Value({MergeWarpLoop(h, resized_images, adjusted_line_sets,
                                     shared.ret[1], Len(h), weights, a, b, p, 1) :
                       h \in {Append(shared.heap, <<>>)}}) :
           shared \in {interpolate_many_call(h0, adjusted_line_sets, weights)}})

\* merge_multiple_images: the array of the weights, the normalized weights,
\* the lists resized_images and adjusted_line_sets holding the first image
\* and the first LineSet, the resize loop, and steps 1 to 3.
merge_call(h0, images, line_sets, weights, a, b, p) ==
    Value({IF Len(h[images]) = 0
           THEN [status |-> "ValueError", heap |-> h, ret |-> <<>>]
           ELSE IF ~(Len(h[images]) = Len(h[line_sets])
                     /\ Len(h[line_sets]) = Len(h[weights]))
                THEN [status |-> "ValueError", heap |-> h, ret |-> <<>>]
           ELSE Value({MergeSharedCall(
                           MergeResizeLoop(start, images, line_sets,
                                           Len(h) + 3, Len(h) + 4, 2),
                           Len(h) + 3, Len(h) + 4, Len(h) + 2, a, b, p) :
                       start \in {Run(h, <<Alloc(h[weights]),
                                           Alloc(merge_normalize(h[weights])),
                                           Alloc(<<h[images][1]>>),
                                           Alloc(<<h[line_sets][1]>>)>>, 1)}}) :
           h \in {h0}})

\* ------------------------------------------------------------------------
\* The inputs the model draws from
\* ------------------------------------------------------------------------

\* Longest LineSet, most rasters of an N-way call, most samples per grid line.
MaxLines == 2

MaxImages == 2

MaxSamples == 2

\* A raster of size w x h whose pixels all differ.
Raster(w, h, base) ==
    [w  |-> w, h |-> h,
     px |-> [y \in 0..(h - 1) |-> [x \in 0..(w - 1) |->
               (base + 37 * x + 101 * y) % 256]]]

\* A raster of one colour.
Solid(w, h, c) ==
    [w |-> w, h |-> h, px |-> [y \in 0..(h - 1) |-> [x \in 0..(w - 1) |-> c]]]

\* The n entries of pool from position s on, cyclically.
Window(pool, s, n) ==
    [i \in 1..n |-> pool[((s + i - 2) % Len(pool)) + 1]]

\* Feature lines: horizontal, degenerate (P = Q), diagonal, vertical.
LinePool ==
    << <<Pt(0, 0), Pt(2, 0)>>, <<Pt(1, 1), Pt(1, 1)>>,
       <<Pt(0, 1), Pt(2, 0)>>, <<Pt(2, 0), Pt(2, 1)>> >>

LineSetPool ==
    {Window(LinePool, s, n) : s \in 1..Len(LinePool), n \in 0..MaxLines}

\* Warp parameters: the defaults a = 0.01, b = 2, p = 0, and a = 0.5, b = 1,
\* p = 1.
DefaultParams == [a |-> FDiv(One, FromInt(100)), b |-> 2, p |-> 0]

ParamPool == {DefaultParams, [a |-> FDiv(One, FromInt(2)), b |-> 1, p |-> 1]}

\* Rasters of an N-way call: two of one size and one of another.
RasterPool == <<Raster(2, 2, 10), Raster(2, 2, 150), Raster(3, 2, 77)>>

RasterLists ==
    {Window(RasterPool, s, n) : s \in 1..2, n \in 0..MaxImages}

\* n LineSets of k lines each; with odd, the last one has a line less.
LineSetList(n, s, k, odd) ==
    [i \in 1..n |->
       Window(LinePool, s + i - 1, IF odd /\ i = n /\ i > 1 THEN k - 1 ELSE k)]

LineSetLists ==
    {LineSetList(n, s, k, FALSE) : n \in 0..MaxImages, s \in 1..2, k \in 0..MaxLines}
    \cup {LineSetList(n, s, k, TRUE) : n \in 2..MaxImages, s \in 1..2, k \in 1..MaxLines}

\* Weights 0, 0, 1, 0.1, 0.3, 3
WeightPool ==
    <<Zero, Zero, One, FDiv(One, FromInt(10)), FDiv(FromInt(3), FromInt(10)),
      FromInt(3)>>

WeightLists(lo) ==
    {Window(WeightPool, s, n) : s \in 1..Len(WeightPool), n \in lo..MaxImages}

\* Weight lists starting with 1 and with 0.3.
FrameWeightLists ==
    {Window(WeightPool, s, n) : s \in {3, 5}, n \in 1..MaxImages}

\* Channel values of the rasters that are blended.
ChannelPool == {0, 1, 2, 127, 128, 254, 255}

BlendRasters ==
    {Solid(2, 2, c) : c \in ChannelPool}
    \cup {Raster(2, 2, 10), Raster(2, 2, 150), Raster(2, 2, 200), Raster(3, 2, 77)}

\* Blend parameters 0, 1, 0.5 and 0.25
AlphaPool == {Zero, One, FDiv(One, FromInt(2)), FDiv(One, FromInt(4))}

\* Feature lines with coordinates that are not powers of two.
PairLinePool ==
    << <<Pt(3, 0), Pt(6, 0)>>, <<Pt(5, 5), Pt(5, 5)>>,
       <<Pt(0, 3), Pt(7, 1)>>, <<Pt(6, 2), Pt(1, 7)>> >>

PairLineSets ==
    {Window(PairLinePool, s, n) : s \in 1..Len(PairLinePool), n \in 0..MaxLines}

\* Interpolation parameters 0, 1, 0.25, 0.1, 0.3, and 1.5 and 1.1 outside
\* [0, 1] (alpha is not clamped).
PairAlphaPool ==
    {Zero, One, FDiv(One, FromInt(4)), FDiv(One, FromInt(10)),
     FDiv(FromInt(3), FromInt(10)), FDiv(FromInt(3), FromInt(2)),
     FDiv(FromInt(11), FromInt(10))}

\* Widths, heights and spacings of generate_grid, in pixels.
GridWidthPool == {0, 3, 40}

GridHeightPool == {0, 7, 20}

GridSpacingPool == {0, 1, 7, 10}

\* Grid-line lists handed to warp_grid_points: none, two generated grids and
\* one slanted line.
GridPool ==
    {<<>>, generate_grid(2, 1, 1).lines, generate_grid(3, 2, 2).lines,
     << <<Pt(0, 0), Pt(3, 2)>> >>}

\* Source and destination LineSets of warp_grid_points: equal ones, and
\* every source with no, one and the most destination lines.
GridLineSetPairs ==
    {<<s, s>> : s \in LineSetPool}
        \cup {<<s, d>> : s \in LineSetPool,
                        d \in {<<>>, Window(LinePool, 1, 1),
                               Window(LinePool, 3, MaxLines)}}

\* The line P = (0, 0), Q = (10, 0).
AxisLine == <<Pt(0, 0), Pt(10, 0)>>

\* Pairs of LineSets of equal length for the kernel.
KernelLineSetPairs ==
    {pair \in {<<s, d>> :
                 s \in {<<AxisLine>>, <<LinePool[3]>>, <<AxisLine, LinePool[3]>>,
                        <<LinePool[4], AxisLine>>, <<LinePool[2], AxisLine>>},
                 d \in {<<AxisLine>>, <<LinePool[3]>>, <<AxisLine, LinePool[3]>>,
                        <<LinePool[4], AxisLine>>, <<LinePool[2], AxisLine>>}} :
        Len(pair[1]) = Len(pair[2])}

\* Rows of points X on, above and below the line, from x = -3 to x = 13.
KernelPointRows == {[i \in 1..17 |-> Pt(i - 4, y)] : y \in {-2, 0, 1, 5}}

\* A long source line for a short destination line: the kernel maps the
\* pixels of a small raster far outside it.
FarLineSets ==
    << << <<Pt(-20, -20), Pt(20, 20)>> >>, << <<Pt(1, 0), Pt(2, 1)>> >> >>

\* Source and destination LineSets of equal length for the pixel loop run
\* in any order.
OrderLineSetPairs ==
    {<<s, Window(LinePool, 3, Len(s))>> : s \in LineSetPool}

\* Positive factors a caller may scale a weight list by: 3, 0.1, 0.5
ScalePool == {FromInt(3), FDiv(One, FromInt(10)), FDiv(One, FromInt(2))}

\* ------------------------------------------------------------------------
\* The operations, as calls on the caller's arguments: one call per behaviour
\* (the operations keep no state between calls)
\* ------------------------------------------------------------------------

\* warp(images[0], line_sets[0], line_sets[1], a, b, p)
Warp ==
    /\ op = "none"
    /\ Len(rasters) >= 1 /\ Len(lineSets) >= 2
    /\ op' = "warp"
    /\ result' = warp_image_with_lines(rasters[1], lineSets[1], lineSets[2],
                                       warpParams.a, warpParams.b, warpParams.p)
    /\ UNCHANGED inputs

\* The kernel of the pixel loop, applied to each point of a row of points.
Kernel ==
    /\ op = "none"
    /\ Len(lineSets) >= 2
    /\ op' = "kernel"
    /\ \E points \in KernelPointRows :
          result' = [status    |-> "ok",
                     points    |-> points,
                     positions |-> [i \in 1..Len(points) |->
                                      WarpKernel(points[i], lineSets[1],
                                                 lineSets[2], warpParams.a,
                                                 warpParams.b, warpParams.p)]]
    /\ UNCHANGED inputs

\* interpolate(line_sets[0], line_sets[1], alpha)
Interpolate ==
    /\ op = "none"
    /\ Len(lineSets) >= 2
    /\ op' = "interpolate"
    /\ result' = interpolate_lines(lineSets[1], lineSets[2], alphaArg)
    /\ UNCHANGED inputs

\* warpGrid(grid_lines, line_sets[0], line_sets[1], a, b, p, samples_per_line)
WarpGrid ==
    /\ op = "none"
    /\ Len(lineSets) >= 2
    /\ op' = "warp_grid"
    /\ result' = warp_grid_points(gridLines, lineSets[1], lineSets[2],
                                  warpParams.a, warpParams.b, warpParams.p, samplesPerLine)
    /\ UNCHANGED inputs

\* generateGrid(width, height, grid_spacing); the record returned keeps the
\* arguments of the call.
GenerateGrid ==
    /\ op = "none"
    /\ op' = "generate_grid"
    /\ \E width \in GridWidthPool, height \in GridHeightPool,
          grid_spacing \in GridSpacingPool :
          result' = [args |-> <<width, height, grid_spacing>>,
                     grid |-> generate_grid(width, height, grid_spacing)]
    /\ UNCHANGED inputs

\* blend(images[0], images[1], alpha)
Blend ==
    /\ op = "none"
    /\ Len(rasters) >= 2
    /\ op' = "blend"
    /\ result' = blend_images(rasters[1], rasters[2], alphaArg)
    /\ UNCHANGED inputs

\* blendMany(images, weights)
BlendMany ==
    /\ op = "none"
    /\ op' = "blend_many"
    /\ result' = blend_multiple_images(rasters, weightVec)
    /\ UNCHANGED inputs

\* interpolateMany(line_sets, weights)
InterpolateMany ==
    /\ op = "none"
    /\ op' = "interpolate_many"
    /\ result' = interpolate_multiple_lines(lineSets, weightVec)
    /\ UNCHANGED inputs

\* mergeMultiple(images, line_sets, weights, a, b, p)
Merge ==
    /\ op = "none"
    /\ op' = "merge"
    /\ result' = merge_multiple_images(rasters, lineSets, weightVec,
                                       warpParams.a, warpParams.b, warpParams.p)
    /\ UNCHANGED inputs

\* The start of warp(images[0], line_sets[0], line_sets[1], a, b, p): the
\* output array of zeros, no slot of it written yet.
BeginWarp ==
    /\ op = "none"
    /\ Len(rasters) >= 1 /\ Len(lineSets) >= 2
    /\ Len(lineSets[2]) <= Len(lineSets[1])
    /\ op' = "warping"
    /\ result' = [status |-> "running",
                  image  |-> ZerosLike(rasters[1]),
                  writes |-> [y \in 0..(rasters[1].h - 1) |->
                                [x \in 0..(rasters[1].w - 1) |-> 0]]]
    /\ UNCHANGED inputs

\* One run of the loop body, for a pixel (x, y) that no run has taken yet;
\* the sequential loop takes the pixels row by row.
WritePixel ==
    /\ op = "warping"
    /\ \E y \in 0..(rasters[1].h - 1), x \in 0..(rasters[1].w - 1) :
          /\ result.writes[y][x] = 0
          /\ result' = [result EXCEPT
                           !.image.px[y][x] =
                               PixelValue(result.image, rasters[1], lineSets[1],
                                          lineSets[2], warpParams.a, warpParams.b,
                                          warpParams.p, x, y),
                           !.writes[y][x] = @ + 1]
    /\ UNCHANGED <<inputs, op>>

\* The end of the loop: every pixel has been taken.
JoinWarp ==
    /\ op = "warping"
    /\ \A y \in 0..(rasters[1].h - 1), x \in 0..(rasters[1].w - 1) :
          result.writes[y][x] >= 1
    /\ op' = "warped"
    /\ result' = [result EXCEPT !.status = "ok"]
    /\ UNCHANGED inputs

\* The caller's objects before a call: the rasters, the LineSets, the weight
\* list, the list of the rasters, the list of the LineSets, the grid lines.
ArgHeap ==
    rasters \o lineSets
        \o <<weightVec,
              [k \in 1..Len(rasters) |-> k],
              [k \in 1..Len(lineSets) |-> Len(rasters) + k],
              gridLines>>

ImageId(k) == k

LineSetId(k) == Len(rasters) + k

WeightsId == Len(rasters) + Len(lineSets) + 1

ImagesId == Len(rasters) + Len(lineSets) + 2

LineSetsId == Len(rasters) + Len(lineSets) + 3

GridLinesId == Len(rasters) + Len(lineSets) + 4

\* The result of the call of the operation name.
Named(name, call) ==
    Value({[name |-> name, status |-> r.status, heap |-> r.heap, ret |-> r.ret] :
           r \in {call}})

CallWarp ==
    /\ op = "none"
    /\ Len(rasters) >= 1 /\ Len(lineSets) >= 2
    /\ op' = "call"
    /\ result' = Named("warp", warp_call(ArgHeap, ImageId(1), LineSetId(1),
                                         LineSetId(2), warpParams.a,
                                         warpParams.b, warpParams.p))
    /\ UNCHANGED inputs

CallInterpolate ==
    /\ op = "none"
    /\ Len(lineSets) >= 2
    /\ op' = "call"
    /\ result' = Named("interpolate",
                       interpolate_call(ArgHeap, LineSetId(1), LineSetId(2),
                                        alphaArg))
    /\ UNCHANGED inputs

CallBlend ==
    /\ op = "none"
    /\ Len(rasters) >= 2
    /\ op' = "call"
    /\ result' = Named("blend",
                       blend_call(ArgHeap, ImageId(1), ImageId(2), alphaArg))
    /\ UNCHANGED inputs

CallBlendMany ==
    /\ op = "none"
    /\ op' = "call"
    /\ result' = Named("blend_many", blend_many_call(ArgHeap, ImagesId, WeightsId))
    /\ UNCHANGED inputs

CallInterpolateMany ==
    /\ op = "none"
    /\ op' = "call"
    /\ result' = Named("interpolate_many",
                       interpolate_many_call(ArgHeap, LineSetsId, WeightsId))
    /\ UNCHANGED inputs

CallGenerateGrid ==
    /\ op = "none"
    /\ Len(rasters) >= 1
    /\ op' = "call"
    /\ \E grid_spacing \in {1, 2} :
          result' = Named("generate_grid",
                          generate_grid_call(ArgHeap, rasters[1].w, rasters[1].h,
                                             grid_spacing))
    /\ UNCHANGED inputs

CallWarpGrid ==
    /\ op = "none"
    /\ Len(lineSets) >= 2
    /\ op' = "call"
    /\ result' = Named("warp_grid",
                       warp_grid_call(ArgHeap, GridLinesId, LineSetId(1),
                                      LineSetId(2), warpParams.a, warpParams.b,
                                      warpParams.p, samplesPerLine))
    /\ UNCHANGED inputs

CallMerge ==
    /\ op = "none"
    /\ op' = "call"
    /\ result' = Named("merge",
                       merge_call(ArgHeap, ImagesId, LineSetsId, WeightsId,
                                  warpParams.a, warpParams.b, warpParams.p))
    /\ UNCHANGED inputs

\* ------------------------------------------------------------------------
\* Specification of the pairwise geometry calls: warp, interpolate, warpGrid
\* ------------------------------------------------------------------------

InitWarp ==
    /\ rasters \in {<<Raster(3, 2, c)>> : c \in {10, 150}}
    /\ lineSets \in {<<s, d>> : s \in LineSetPool, d \in LineSetPool}
                      \cup {FarLineSets}
    /\ weightVec = <<>>
    /\ alphaArg \in {Zero, FDiv(One, FromInt(4))}
    /\ warpParams \in ParamPool
    /\ gridLines = << <<Pt(0, 1), Pt(3, 1)>> >>
    /\ samplesPerLine \in 1..MaxSamples
    /\ op = "none"
    /\ result = [status |-> "none"]
    /\ app = NoWindow

NextWarp == Warp \/ Interpolate \/ WarpGrid

SpecWarp == InitWarp /\ [][NextWarp]_vars

\* C1, as claimed: for every raster I, every non-empty LineSet L (degenerate
\* lines included) and all parameters, warp(I, L, L, params) returns a raster
\* equal to I at every pixel.
C1_IdentityWarp ==
    (op = "warp" /\ lineSets[1] = lineSets[2] /\ Len(lineSets[1]) > 0)
        => (result.status = "ok" /\ result.image = rasters[1])

\* C1, the case that refutes it: with the one degenerate line (1,1)-(1,1) as
\* source and destination and the default parameters, every pixel of the
\* output is the source pixel at (1, 1).
C1_DegenerateLineCollapses ==
    /\ op = "warp"
    /\ lineSets = <<Window(LinePool, 2, 1), Window(LinePool, 2, 1)>>
    /\ warpParams = DefaultParams
    /\ result.status = "ok"
    /\ \A y \in 0..(rasters[1].h - 1) : \A x \in 0..(rasters[1].w - 1) :
          result.image.px[y][x] = rasters[1].px[1][1]
    /\ result.image # rasters[1]

\* C2: when the destination LineSet is empty, warp returns a raster equal to
\* the source raster pixel for pixel, whatever the source LineSet and the
\* parameters are, and neither the kernel nor the resampler runs for any
\* pixel.
C2_EmptyDestIsCopy ==
    (op = "warp" /\ Len(lineSets[2]) = 0)
        => /\ result.status = "ok"
           /\ result.image = rasters[1]
           /\ result.evals = 0

\* C2 happens: a warp with source lines, no destination line and parameters
\* other than the defaults has returned.
C2_EmptyDestReached ==
    /\ op = "warp"
    /\ Len(lineSets[2]) = 0
    /\ Len(lineSets[1]) = MaxLines
    /\ warpParams # DefaultParams
    /\ result.status = "ok"

\* C6, as claimed: whenever the two LineSets passed to warp, warpGrid or
\* interpolate differ in length, in either direction, the call fails; it
\* never returns a result.
C6_LengthMismatchFails ==
    (/\ op \in {"warp", "warp_grid", "interpolate"}
     /\ Len(lineSets[1]) # Len(lineSets[2]))
        => result.status # "ok"

\* C6, the case that refutes it: warp is given more source lines than
\* destination lines (at least one) and returns the raster it computes
\* from the source LineSet cut to the length of the destination LineSet.
C6_SurplusSourceLinesDropped ==
    /\ op = "warp"
    /\ Len(lineSets[1]) > Len(lineSets[2])
    /\ Len(lineSets[2]) > 0
    /\ result.status = "ok"
    /\ result = warp_image_with_lines(rasters[1],
                                      SubSeq(lineSets[1], 1, Len(lineSets[2])),
                                      lineSets[2],
                                      warpParams.a, warpParams.b, warpParams.p)

\* The source position the kernel produces for the destination pixel (x, y)
\* of the call in the current state.
SourcePosition(x, y) ==
    WarpKernel(Pt(x, y), lineSets[1], lineSets[2],
               warpParams.a, warpParams.b, warpParams.p)

\* C16: for every source position produced by the kernel, however far
\* outside the raster, the resampler does not fail: the position is clamped
\* into [0, width-1] x [0, height-1], and every index read (x0, x1 = x0 + 1,
\* y0, y1 = y0 + 1 in the bilinear branch, the truncated clamped coordinate
\* in the nearest-pixel branch) lies inside the raster.
C16_ResamplerInBounds ==
    (op = "warp" /\ 0 < Len(lineSets[2]) /\ Len(lineSets[2]) <= Len(lineSets[1]))
        => /\ result.status = "ok"
           /\ \A y \in 0..(rasters[1].h - 1), x \in 0..(rasters[1].w - 1) :
                \A pos \in {SourcePosition(x, y)} :
                  \A src_x \in {Clamp(pos[1], rasters[1].w)},
                     src_y \in {Clamp(pos[2], rasters[1].h)} :
                    /\ FLe(Zero, src_x) /\ FLe(src_x, FromInt(rasters[1].w - 1))
                    /\ FLe(Zero, src_y) /\ FLe(src_y, FromInt(rasters[1].h - 1))
                    /\ SampleReads(rasters[1], src_x, src_y)
                          \subseteq (0..(rasters[1].h - 1)) \X (0..(rasters[1].w - 1))
                    /\ SampleReads(rasters[1], src_x, src_y)
                          \in {{<<Trunc(src_y), Trunc(src_x)>>},
                               {Trunc(src_y), Trunc(src_y) + 1}
                                   \X {Trunc(src_x), Trunc(src_x) + 1}}

\* C16 happens: a warp has sampled a position more than a raster's width
\* and height before the raster's origin and a position more than a
\* raster's width and height beyond its far corner.
C16_FarOutsideSampled ==
    /\ op = "warp"
    /\ result.status = "ok"
    /\ \E y \in 0..(rasters[1].h - 1), x \in 0..(rasters[1].w - 1) :
          /\ FLt(SourcePosition(x, y)[1], FromInt(-rasters[1].w))
          /\ FLt(SourcePosition(x, y)[2], FromInt(-rasters[1].h))
    /\ \E y \in 0..(rasters[1].h - 1), x \in 0..(rasters[1].w - 1) :
          /\ FLt(FromInt(2 * rasters[1].w), SourcePosition(x, y)[1])
          /\ FLt(FromInt(2 * rasters[1].h), SourcePosition(x, y)[2])

\* |X - P| if u < 0, |X - Q| if u > 1, |v| otherwise.
DistFromUV(X, P, Q, uv) ==
    IF FLt(uv[1], Zero) THEN Norm(VSub(X, P))
    ELSE IF FLt(One, uv[1]) THEN Norm(VSub(X, Q))
    ELSE FAbs(uv[2])

\* C21, as claimed: for every destination line i and pixel X the distance of
\* the kernel (of warp and of warpGrid) is chosen from the (u, v) of X
\* against that line: |X - P| if u < 0, |X - Q| if u > 1, |v| otherwise; for
\* a degenerate destination line, whose (u, v) is (0, 0), it is |v| = 0.
C21_DistFromUV ==
    op = "warp"
        => \A y \in 0..(rasters[1].h - 1), x \in 0..(rasters[1].w - 1),
              i \in 1..Len(lineSets[2]) :
             \A X \in {Pt(x, y)}, P \in {lineSets[2][i][1]},
                Q \in {lineSets[2][i][2]} :
               \A uv \in {compute_uv(X, P, Q)}, length_PQ \in {Norm(VSub(Q, P))} :
                 /\ LineDist(X, P, Q, length_PQ, uv[1], uv[2])
                      = DistFromUV(X, P, Q, uv)
                 /\ GridLineDist(X, P, Q, length_PQ, uv[1], uv[2])
                      = DistFromUV(X, P, Q, uv)

\* C21, the case that refutes it: a warp has run with the degenerate
\* destination line (1,1)-(1,1); (u, v) of the pixel (0, 0) is (0, 0), and
\* the distance of both kernels is |X - P| = sqrt(2), not 0.
C21_DegenerateDistIsToP ==
    /\ op = "warp"
    /\ result.status = "ok"
    /\ Len(lineSets[2]) >= 1
    /\ lineSets[2][1] = <<Pt(1, 1), Pt(1, 1)>>
    /\ compute_uv(Pt(0, 0), Pt(1, 1), Pt(1, 1)) = <<Zero, Zero>>
    /\ LineDist(Pt(0, 0), Pt(1, 1), Pt(1, 1), Zero, Zero, Zero) = FSqrt(FromInt(2))
    /\ GridLineDist(Pt(0, 0), Pt(1, 1), Pt(1, 1), Zero, Zero, Zero)
          = FSqrt(FromInt(2))

\* Whether the line is degenerate: |Q - P| < epsilon.
Degenerate(line) == FLt(Norm(VSub(line[2], line[1])), Eps)

\* C22: a degenerate line is a defined fallback and never an error:
\* pointToUV returns (0, 0) when |Q - P| < epsilon, uvToPoint returns P'
\* when |Q' - P'| < epsilon, and warp and warpGrid complete, no divisor of
\* the kernel being 0 (a > 0), for LineSets with degenerate source or
\* destination lines.
C22_DegenerateIsFallback ==
    (op \in {"warp", "warp_grid"} /\ Len(lineSets[2]) <= Len(lineSets[1])
                                  /\ FLt(Zero, warpParams.a))
        => /\ result.status = "ok"
           /\ \A y \in 0..(rasters[1].h - 1), x \in 0..(rasters[1].w - 1),
                 i \in 1..Len(lineSets[2]) :
                \A X \in {Pt(x, y)}, dest \in {lineSets[2][i]},
                   source \in {lineSets[1][i]} :
                  \A uv \in {compute_uv(X, dest[1], dest[2])},
                     length_PQ \in {Norm(VSub(dest[2], dest[1]))} :
                    /\ Degenerate(dest) => uv = <<Zero, Zero>>
                    /\ ~Degenerate(dest) => FLt(Zero, FMul(length_PQ, length_PQ))
                    /\ Degenerate(source)
                          => compute_X_prime(uv[1], uv[2], source[1], source[2])
                               = source[1]
                    /\ FLt(Zero, FPow(FAdd(warpParams.a,
                                            LineDist(X, dest[1], dest[2], length_PQ,
                                                     uv[1], uv[2])),
                                       warpParams.b))

\* C22 happens: warpGrid has completed with a degenerate source line and a
\* degenerate destination line that are not paired with each other.
C22_DegenerateLinesWarped ==
    /\ op = "warp_grid"
    /\ result.status = "ok"
    /\ Len(lineSets[1]) = Len(lineSets[2])
    /\ \E i \in 1..Len(lineSets[2]), j \in 1..Len(lineSets[2]) :
          /\ i # j
          /\ Degenerate(lineSets[1][i]) /\ ~Degenerate(lineSets[2][i])
          /\ Degenerate(lineSets[2][j]) /\ ~Degenerate(lineSets[1][j])

\* The position the claim gives for X, from the sums <<DSUM, weightsum>> of
\* the loop: X itself when the weight sum is 0, X + DSUM / weightsum
\* otherwise.
PositionFromSums(X, acc) ==
    IF acc[2] = Zero THEN X ELSE VAdd(X, VDivS(acc[1], acc[2]))

\* C23: in the kernel, whenever the weight sum is 0 the source position is
\* X itself and nothing is divided by the weight sum; otherwise the position
\* is X + sum(weight_i * D_i) / sum(weight_i).  Both copies of the kernel
\* are examined: at every pixel of warp and at every sample of warpGrid.
C23_ZeroWeightSumKeepsX ==
    /\ (op = "warp" /\ result.status = "ok")
          => \A y \in 0..(rasters[1].h - 1), x \in 0..(rasters[1].w - 1) :
               \A X \in {Pt(x, y)} :
                 \A acc \in {KernelLoop(X, lineSets[1], lineSets[2], warpParams.a,
                                        warpParams.b, warpParams.p, 1,
                                        <<(<<Zero, Zero>>), Zero>>)} :
                   /\ ~FLt(acc[2], Zero)
                   /\ SourcePosition(x, y) = PositionFromSums(X, acc)
    /\ (op = "warp_grid" /\ result.status = "ok" /\ Len(lineSets[2]) >= 1)
          => \A g \in 1..Len(gridLines), j \in 1..(samplesPerLine + 1) :
               \A X \in {GridSample(gridLines[g], j - 1, samplesPerLine)} :
                 \A acc \in {GridKernelLoop(X, lineSets[1], lineSets[2],
                                            warpParams.a, warpParams.b,
                                            warpParams.p, 1,
                                            <<(<<Zero, Zero>>), Zero>>)} :
                   /\ ~FLt(acc[2], Zero)
                   /\ result.polylines[g][j] = PositionFromSums(X, acc)

\* C23 happens: warpGrid has run with p > 0 and only degenerate destination
\* lines, the weight sum at the first sample is 0, and the sample stays
\* where it is.
C23_AllWeightsZero ==
    /\ op = "warp_grid"
    /\ result.status = "ok"
    /\ warpParams.p > 0
    /\ Len(lineSets[2]) >= 1
    /\ \A i \in 1..Len(lineSets[2]) : Degenerate(lineSets[2][i])
    /\ GridKernelLoop(gridLines[1][1], lineSets[1], lineSets[2], warpParams.a,
                      warpParams.b, warpParams.p, 1,
                      <<(<<Zero, Zero>>), Zero>>)[2] = Zero
    /\ result.polylines[1][1] = gridLines[1][1]

\* C24: the kernel copy in warpGrid and the kernel copy in warp compute the
\* same function: for every X, LineSets of equal length and (a, b, p), the
\* position warpGrid computes for a sample at X equals the unclamped source
\* position warp computes for a pixel at X.
C24_KernelCopiesAgree ==
    (op = "kernel" /\ Len(lineSets[1]) = Len(lineSets[2]))
        => \A i \in 1..Len(result.points) :
              GridPoint(result.points[i], lineSets[1], lineSets[2],
                        warpParams.a, warpParams.b, warpParams.p)
                = result.positions[i]

\* C24 happens: the kernel has run with p > 0 on two pairs of lines, one of
\* them with a degenerate destination line, and has moved a point.
C24_KernelMovedPoint ==
    /\ op = "kernel"
    /\ warpParams.p > 0
    /\ Len(lineSets[1]) = 2 /\ Len(lineSets[2]) = 2
    /\ Degenerate(lineSets[2][1])
    /\ \E i \in 1..Len(result.points) :
          /\ result.positions[i] # result.points[i]
          /\ GridPoint(result.points[i], lineSets[1], lineSets[2],
                       warpParams.a, warpParams.b, warpParams.p)
               = result.positions[i]

\* ------------------------------------------------------------------------
\* Specification of the N-way calls: mergeMultiple, interpolateMany, blendMany
\* ------------------------------------------------------------------------

InitMerge ==
    /\ rasters \in RasterLists
    /\ lineSets \in LineSetLists
    /\ weightVec \in WeightLists(0)
    /\ alphaArg = Zero
    /\ warpParams \in ParamPool
    /\ gridLines = <<>>
    /\ samplesPerLine = 1
    /\ op = "none"
    /\ result = [status |-> "none"]
    /\ app = NoWindow

NextMerge == Merge \/ InterpolateMany \/ BlendMany

SpecMerge == InitMerge /\ [][NextMerge]_vars

\* The call of mergeMultiple passes the validation of the counts: at least
\* one raster, and as many LineSets and weights as rasters.
CountsMatch ==
    /\ Len(rasters) >= 1
    /\ Len(rasters) = Len(lineSets)
    /\ Len(lineSets) = Len(weightVec)

\* C3: for a single raster I, a single LineSet L and a single weight w > 0,
\* mergeMultiple([I], [L], [w], params) returns a merged raster equal to
\* warp(I, L, L, params), a warped list holding exactly that raster, and
\* sharedLines equal to L, whatever the value of w.
C3_SingleImageMerge ==
    (/\ op = "merge"
     /\ Len(rasters) = 1 /\ Len(lineSets) = 1 /\ Len(weightVec) = 1
     /\ FLt(Zero, weightVec[1]))
        => \A w \in {warp_image_with_lines(rasters[1], lineSets[1], lineSets[1],
                                            warpParams.a, warpParams.b,
                                            warpParams.p)} :
              /\ w.status = "ok"
              /\ result.status = "ok"
              /\ result.merged = w.image
              /\ result.warped = <<w.image>>
              /\ result.shared = lineSets[1]

\* C3 happens: a merge of one raster with a LineSet of MaxLines lines, the
\* weight 0.3 and parameters other than the defaults has returned.
C3_SingleImageMerged ==
    /\ op = "merge"
    /\ Len(rasters) = 1 /\ Len(lineSets) = 1
    /\ Len(lineSets[1]) = MaxLines
    /\ weightVec = <<FDiv(FromInt(3), FromInt(10))>>
    /\ warpParams # DefaultParams
    /\ result.status = "ok"

\* C4: for N equally sized rasters (and LineSets of one length), with n the
\* weights as mergeMultiple normalizes them, mergeMultiple returns
\* sharedLines = interpolateMany(lineSets, n), N warped rasters with
\* warped[k] = warp(rasters[k], lineSets[k], sharedLines, params) for every k,
\* and merged = blendMany(warped, n); the geometry and the blend are computed
\* with the same weight vector.
C4_MergeStructure ==
    (/\ op = "merge"
     /\ CountsMatch
     /\ SameShape(rasters)
     /\ \A k \in 1..Len(lineSets) : Len(lineSets[k]) = Len(lineSets[1]))
        => /\ result.status = "ok"
           /\ \A n \in {merge_normalize(weightVec)} :
                 /\ result.shared = interpolate_multiple_lines(lineSets, n).lines
                 /\ result.merged = blend_multiple_images(result.warped, n).image
           /\ Len(result.warped) = Len(rasters)
           /\ \A k \in 1..Len(rasters) :
                 result.warped[k] =
                     warp_image_with_lines(rasters[k], lineSets[k], result.shared,
                                           warpParams.a, warpParams.b,
                                           warpParams.p).image
           /\ result.used = result.used_geom

\* C4 happens: a merge of MaxImages equally sized rasters with different
\* LineSets of MaxLines lines and unequal positive weights has returned.
C4_MergeOfManyReached ==
    /\ op = "merge"
    /\ Len(rasters) = MaxImages
    /\ CountsMatch
    /\ SameShape(rasters)
    /\ \A k \in 1..Len(lineSets) : Len(lineSets[k]) = MaxLines
    /\ lineSets[1] # lineSets[2]
    /\ FLt(Zero, weightVec[1]) /\ FLt(weightVec[1], weightVec[2])
    /\ result.status = "ok"
    /\ result.shared # lineSets[1]

\* C5: mergeMultiple fails with an error and returns no result when there is
\* no raster, when the counts of rasters, LineSets and weights are not all
\* equal, or when the LineSets do not all have the same number of lines; in
\* each case it fails before any raster is warped.
C5_MergeValidation ==
    (/\ op = "merge"
     /\ \/ ~CountsMatch
        \/ \E k \in 1..Len(lineSets) : Len(lineSets[k]) # Len(lineSets[1]))
        => /\ result.status \notin {"ok", "none"}
           /\ DOMAIN result = {"status", "warps"}
           /\ result.warps = 0

\* C5 happens: a merge whose counts all equal MaxImages but whose last
\* LineSet is a line short has failed.
C5_UnequalLineCountsRejected ==
    /\ op = "merge"
    /\ Len(rasters) = MaxImages
    /\ CountsMatch
    /\ Len(lineSets[Len(lineSets)]) < Len(lineSets[1])
    /\ result.status = "ValueError"

\* Normalization as the data model states it, in the program's arithmetic:
\* each weight divided by the raw sum when that is > 0, and 1/N otherwise.
NormalizedOnce(ws) ==
    \* the raw sum is the sum in list order, as np.sum computes it
    IF FLt(Zero, FSum(ws, Len(ws)))
    THEN [i \in 1..Len(ws) |-> FDiv(ws[i], FSum(ws, Len(ws)))]
    ELSE [i \in 1..Len(ws) |-> FDiv(One, FromInt(Len(ws)))]

\* The number of places after the binary point that hold every entry of ws
\* exactly.
Places(ws) ==
    CHOOSE k \in {0} \cup {-ws[i][2] : i \in 1..Len(ws)} :
        \A i \in 1..Len(ws) : -ws[i][2] <= k

RECURSIVE ScaledSum(_, _, _)
\* The exact sum of the first n entries of ws, in units of 2^(-k).
ScaledSum(ws, n, k) ==
    IF n = 0 THEN 0 ELSE ScaledSum(ws, n - 1, k) + ws[n][1] * 2 ^ (ws[n][2] + k)

\* The exact sum of ws is 1.
SumsToOne(ws) == ScaledSum(ws, Len(ws), Places(ws)) = 2 ^ Places(ws)

\* The exact sum of ws differs from 1 by at most (2N + 1) * 2^(-MantBits).
SumsToOneRounded(ws) ==
    Abs(ScaledSum(ws, Len(ws), Places(ws)) - 2 ^ Places(ws))
        <= ((2 * Len(ws) + 1) * 2 ^ Places(ws)) \div (2 ^ MantBits)

\* Two weight vectors differ by at most (2N + 1) * 2^(-MantBits) in every
\* entry.
WeightsClose(v, ws) ==
    /\ Len(v) = Len(ws)
    /\ \A i \in 1..Len(ws) :
          FLe(FAbs(FSub(v[i], ws[i])), Canon(2 * Len(ws) + 1, -MantBits))

\* C7, as it holds of the program: in blendMany, interpolateMany and
\* mergeMultiple the weights are normalized as stated (each divided by the
\* raw sum when that is > 0, 1/N each otherwise), blendMany and
\* interpolateMany use that vector and mergeMultiple uses, for the geometry
\* and for the blend alike, that vector normalized once more.  The
\* normalized weights sum to 1 up to the rounding of the divisions, and
\* normalizing them again changes each by at most a rounding error; it
\* leaves them unchanged when their computed sum is exactly 1.
C7_NormalizedUpToRounding ==
    (op \in {"blend_many", "interpolate_many", "merge"} /\ result.status = "ok")
        => \A n \in {NormalizedOnce(weightVec)} :
              /\ op # "merge" => result.used = n
              /\ op = "merge" => /\ result.used = NormalizedOnce(n)
                                 /\ result.used_geom = NormalizedOnce(n)
              /\ SumsToOneRounded(n)
              /\ SumsToOneRounded(result.used)
              /\ WeightsClose(NormalizedOnce(n), n)
              /\ FSum(n, Len(n)) = One => NormalizedOnce(n) = n

\* C7 happens: a merge has returned whose weights, normalized three times,
\* are not the weights normalized once, and do not sum to 1.
C7_RepeatedNormalizationDiffers ==
    /\ op = "merge"
    /\ result.status = "ok"
    /\ Len(weightVec) = MaxImages
    /\ result.used # NormalizedOnce(weightVec)
    /\ ~SumsToOne(NormalizedOnce(weightVec))

\* C7, as claimed: the weight vector used sums to 1, normalizing it again
\* leaves it unchanged, and mergeMultiple uses the weights of a single
\* normalization.
C7_NormalizedExactly ==
    (op \in {"blend_many", "interpolate_many", "merge"} /\ result.status = "ok")
        => /\ SumsToOne(result.used)
           /\ NormalizedOnce(result.used) = result.used
           /\ result.used = NormalizedOnce(weightVec)

\* ------------------------------------------------------------------------
\* Specification of the raster blends: blend, blendMany on two rasters
\* ------------------------------------------------------------------------

InitBlend ==
    /\ rasters \in {<<i1, i2>> : i1 \in BlendRasters, i2 \in BlendRasters}
    /\ lineSets = <<>>
    /\ weightVec \in WeightLists(2)
    /\ alphaArg \in AlphaPool
    /\ warpParams = DefaultParams
    /\ gridLines = <<>>
    /\ samplesPerLine = 1
    /\ op = "none"
    /\ result = [status |-> "none"]
    /\ app = NoWindow

NextBlend == Blend \/ BlendMany

SpecBlend == InitBlend /\ [][NextBlend]_vars

\* C8, as claimed: for equally sized rasters imgs, a weight vector w with
\* positive sum and a constant k > 0, blendMany(imgs, k * w) equals
\* blendMany(imgs, w) at every pixel.
C8_ScalingInvariance ==
    (/\ op = "blend_many"
     /\ result.status = "ok"
     /\ FLt(Zero, FSum(weightVec, Len(weightVec))))
        => \A k \in ScalePool :
              blend_multiple_images(
                  rasters, [i \in 1..Len(weightVec) |-> FMul(k, weightVec[i])]
              ).image = result.image

\* C8, the case that refutes it: two white rasters blended with the weights
\* (1, 0.1) give the colour 254, and with the weights (3, 0.3) the colour
\* 255.
C8_WhiteBlendsDiffer ==
    /\ op = "blend_many"
    /\ rasters = <<Solid(2, 2, 255), Solid(2, 2, 255)>>
    /\ weightVec = <<One, FDiv(One, FromInt(10))>>
    /\ result.status = "ok"
    /\ result.image = Solid(2, 2, 254)
    /\ blend_multiple_images(
           rasters, <<FMul(FromInt(3), One),
                      FMul(FromInt(3), FDiv(One, FromInt(10)))>>
       ).image = Solid(2, 2, 255)

\* C9: for equally sized rasters I1 and I2 with channels in 0..255,
\* blend(I1, I2, 0) equals I1 and blend(I1, I2, 1) equals I2 at every pixel.
C9_BlendEndpoints ==
    (op = "blend" /\ SameShape(rasters))
        => /\ result.status = "ok"
           /\ alphaArg = Zero => result.image = rasters[1]
           /\ alphaArg = One => result.image = rasters[2]

\* C9 happens: two different rasters of many colours have been blended at
\* alpha = 1.
C9_BlendAtOneReached ==
    /\ op = "blend"
    /\ alphaArg = One
    /\ rasters = <<Raster(2, 2, 10), Raster(2, 2, 200)>>
    /\ result.status = "ok"
    /\ result.image # rasters[1]

\* round(q / 2) for a natural number q, halves rounded up.
RoundHalfUp(q) == (q + 1) \div 2

\* round(q / 2) for a natural number q, halves rounded to the even
\* neighbour.
RoundHalfEven(q) ==
    IF q % 2 = 0 THEN q \div 2
    ELSE IF (q \div 2) % 2 = 0 THEN q \div 2 ELSE q \div 2 + 1

\* C10, as claimed: blending a raster of solid colour A with an equally
\* sized raster of solid colour B at alpha = 0.5 yields round((A + B) / 2) at
\* every pixel, also when A + B is odd (under either convention for
\* rounding a half).
C10_HalfBlendRounds ==
    (/\ op = "blend"
     /\ alphaArg = FDiv(One, FromInt(2))
     /\ \E A \in ChannelPool, B \in ChannelPool :
           rasters = <<Solid(2, 2, A), Solid(2, 2, B)>>)
        => /\ result.status = "ok"
           /\ \A y \in 0..1, x \in 0..1 :
                 result.image.px[y][x] \in
                     {RoundHalfUp(rasters[1].px[y][x] + rasters[2].px[y][x]),
                      RoundHalfEven(rasters[1].px[y][x] + rasters[2].px[y][x])}

\* C10, the case that refutes it: the colours 1 and 2 blended at alpha = 0.5
\* give 1, the integer part of 1.5.
C10_HalfIsTruncated ==
    /\ op = "blend"
    /\ alphaArg = FDiv(One, FromInt(2))
    /\ rasters = <<Solid(2, 2, 1), Solid(2, 2, 2)>>
    /\ result.status = "ok"
    /\ result.image = Solid(2, 2, 1)

\* ------------------------------------------------------------------------
\* Specification of the pairwise calls and of the N-way calls on two inputs
\* with the weights (1 - alpha, alpha)
\* ------------------------------------------------------------------------

InitPair ==
    /\ rasters \in {<<i1, i2>> : i1 \in {Raster(2, 2, 10), Raster(2, 2, 150)},
                                 i2 \in {Raster(2, 2, 150), Solid(2, 2, 255)}}
    /\ lineSets \in {<<s, d>> : s \in PairLineSets, d \in PairLineSets}
    /\ alphaArg \in PairAlphaPool
    /\ weightVec = <<FSub(One, alphaArg), alphaArg>>
    /\ warpParams = DefaultParams
    /\ gridLines = <<>>
    /\ samplesPerLine = 1
    /\ op = "none"
    /\ result = [status |-> "none"]
    /\ app = NoWindow

NextPair == Interpolate \/ Blend \/ InterpolateMany \/ BlendMany

SpecPair == InitPair /\ [][NextPair]_vars

\* C11: for LineSets L1 and L2 of equal length, interpolate(L1, L2, 0) equals
\* L1 and interpolate(L1, L2, 1) equals L2 componentwise, and the result has
\* as many lines as L1, line i being computed from line i of L1 and of L2.
C11_InterpolateEndpoints ==
    (op = "interpolate" /\ Len(lineSets[1]) = Len(lineSets[2]))
        => /\ result.status = "ok"
           /\ Len(result.lines) = Len(lineSets[1])
           /\ alphaArg = Zero => result.lines = lineSets[1]
           /\ alphaArg = One => result.lines = lineSets[2]
           /\ \A i \in 1..Len(result.lines) :
                 result.lines[i]
                     = interpolate_lines(<<lineSets[1][i]>>, <<lineSets[2][i]>>,
                                         alphaArg).lines[1]

\* C11 happens: two different LineSets of MaxLines lines have been
\* interpolated at alpha = 1.
C11_InterpolatedAtOne ==
    /\ op = "interpolate"
    /\ alphaArg = One
    /\ Len(lineSets[1]) = MaxLines /\ Len(lineSets[2]) = MaxLines
    /\ lineSets[1] # lineSets[2]
    /\ result.status = "ok"
    /\ result.lines = lineSets[2]

\* The number r is c up to the rounding of (1 - alpha) * c + alpha * c: it
\* differs from c by at most (|1 - alpha| + |alpha|) * |c| * 2^(2 - MantBits).
SelfLerpClose(r, c, alpha) ==
    \A bound \in {FMul(FAdd(FAbs(FSub(One, alpha)), FAbs(alpha)), FAbs(c))} :
        FLe(FAbs(FSub(r, c)), Canon(bound[1], bound[2] + 2 - MantBits))

\* C12, as it holds of the program: for every LineSet L and every alpha,
\* also outside [0, 1], interpolate(L, L, alpha) has the lines of L up to
\* rounding error in every coordinate, and equals L when alpha is 0 or 1.
C12_SelfInterpolationRounded ==
    (op = "interpolate" /\ lineSets[1] = lineSets[2])
        => /\ result.status = "ok"
           /\ Len(result.lines) = Len(lineSets[1])
           /\ \A i \in 1..Len(result.lines), e \in 1..2, c \in 1..2 :
                 SelfLerpClose(result.lines[i][e][c], lineSets[1][i][e][c],
                               alphaArg)
           /\ alphaArg \in {Zero, One} => result.lines = lineSets[1]

\* C12 happens: a LineSet interpolated with itself at alpha = 0.1 has come
\* back changed.
C12_SelfInterpolationDiffers ==
    /\ op = "interpolate"
    /\ lineSets[1] = lineSets[2]
    /\ alphaArg = FDiv(One, FromInt(10))
    /\ result.status = "ok"
    /\ result.lines # lineSets[1]

\* C12, as claimed: for every LineSet L and every alpha, interpolate(L, L,
\* alpha) equals L.
C12_SelfInterpolationExact ==
    (op = "interpolate" /\ lineSets[1] = lineSets[2])
        => (result.status = "ok" /\ result.lines = lineSets[1])

\* C18: the pairwise operations are the case N = 2 of the N-way operations:
\* for LineSets L1, L2 of equal length, rasters I1, I2 of equal size and
\* alpha in [0, 1], interpolateMany([L1, L2], [1 - alpha, alpha]) returns the
\* lines of interpolate(L1, L2, alpha), and blendMany([I1, I2],
\* [1 - alpha, alpha]) returns the raster of blend(I1, I2, alpha).
C18_PairwiseIsTwoWay ==
    (/\ FLe(Zero, alphaArg) /\ FLe(alphaArg, One)
     /\ weightVec = <<FSub(One, alphaArg), alphaArg>>
     /\ Len(lineSets) = 2 /\ Len(rasters) = 2)
        => /\ (op = "interpolate_many" /\ Len(lineSets[1]) = Len(lineSets[2]))
                => /\ result.status = "ok"
                   /\ result.lines
                        = interpolate_lines(lineSets[1], lineSets[2],
                                            alphaArg).lines
           /\ (op = "blend_many" /\ SameShape(rasters))
                => /\ result.status = "ok"
                   /\ result.image
                        = blend_images(rasters[1], rasters[2], alphaArg).image

\* C18 happens: blendMany has blended two different rasters with the
\* weights (0.9, 0.1), which it has used unchanged.
C18_TwoWayBlendReached ==
    /\ op = "blend_many"
    /\ alphaArg = FDiv(One, FromInt(10))
    /\ weightVec = <<FSub(One, alphaArg), alphaArg>>
    /\ Len(rasters) = 2 /\ rasters[1] # rasters[2]
    /\ result.status = "ok"
    /\ result.used = weightVec
    /\ result.image # rasters[1]

\* ------------------------------------------------------------------------
\* Specification of the grid calls: generateGrid, warpGrid
\* ------------------------------------------------------------------------

InitGrid ==
    /\ rasters = <<Raster(3, 2, 10)>>
    /\ lineSets \in GridLineSetPairs
    /\ weightVec = <<>>
    /\ alphaArg = Zero
    /\ warpParams \in ParamPool
    /\ gridLines \in GridPool
    /\ samplesPerLine \in 1..MaxSamples
    /\ op = "none"
    /\ result = [status |-> "none"]
    /\ app = NoWindow

NextGrid == GenerateGrid \/ WarpGrid

SpecGrid == InitGrid /\ [][NextGrid]_vars

\* The k-th of the lines ((0, y), (width, y)) for y = 0, spacing, ...
HorizontalStroke(width, spacing, k) ==
    <<Pt(0, (k - 1) * spacing), Pt(width, (k - 1) * spacing)>>

\* The k-th of the lines ((x, 0), (x, height)) for x = 0, spacing, ...
VerticalStroke(height, spacing, k) ==
    <<Pt((k - 1) * spacing, 0), Pt((k - 1) * spacing, height)>>

\* C13: for width >= 0, height >= 0 and spacing > 0, generateGrid returns
\* first the horizontal lines ((0,y),(width,y)) for exactly the multiples y
\* of spacing with 0 <= y <= height, in increasing y, and then the vertical
\* lines ((x,0),(x,height)) for exactly the multiples x of spacing with
\* 0 <= x <= width, in increasing x; generateGrid(40, 20, 10) yields 3
\* horizontal lines (y = 0, 10, 20) and 5 vertical lines (x = 0, ..., 40).
C13_GridLayout ==
    (op = "generate_grid" /\ result.args[3] > 0)
        => \A width \in {result.args[1]}, height \in {result.args[2]},
              spacing \in {result.args[3]} :
             \A nh \in {(height \div spacing) + 1},
                nv \in {(width \div spacing) + 1} :
               /\ result.grid.status = "ok"
               /\ result.grid.lines
                     = [k \in 1..nh |-> HorizontalStroke(width, spacing, k)]
                         \o [k \in 1..nv |-> VerticalStroke(height, spacing, k)]
               /\ result.args = <<40, 20, 10>>
                     => result.grid.lines
                          = << <<Pt(0, 0), Pt(40, 0)>>, <<Pt(0, 10), Pt(40, 10)>>,
                               <<Pt(0, 20), Pt(40, 20)>>,
                               <<Pt(0, 0), Pt(0, 20)>>, <<Pt(10, 0), Pt(10, 20)>>,
                               <<Pt(20, 0), Pt(20, 20)>>, <<Pt(30, 0), Pt(30, 20)>>,
                               <<Pt(40, 0), Pt(40, 20)>> >>

\* C13 happens: generateGrid(40, 20, 10) has returned its 8 lines.
C13_GridOf40By20 ==
    /\ op = "generate_grid"
    /\ result.args = <<40, 20, 10>>
    /\ result.grid.status = "ok"
    /\ Len(result.grid.lines) = 8

\* P + (j / samples) * (Q - P) for the grid line (P, Q).
LinearSample(grid_line, j, samples) ==
    VAdd(grid_line[1],
         VScale(FDiv(FromInt(j), FromInt(samples)),
                VSub(grid_line[2], grid_line[1])))

\* The points A and B differ by at most 2^(6 - MantBits) in each coordinate.
PointsClose(A, B) ==
    \A c \in 1..2 : FLe(FAbs(FSub(A[c], B[c])), Canon(1, 6 - MantBits))

\* C14, as claimed: when sourceLines equals destLines, warpGrid returns for
\* every grid line its unwarped linear samples; point j of the polyline
\* equals P + (j / samplesPerLine) * (Q - P), here up to a floating-point
\* tolerance.
C14_GridIdentity ==
    (op = "warp_grid" /\ lineSets[1] = lineSets[2])
        => /\ result.status = "ok"
           /\ \A g \in 1..Len(gridLines), j \in 1..(samplesPerLine + 1) :
                 PointsClose(result.polylines[g][j],
                             LinearSample(gridLines[g], j - 1, samplesPerLine))

\* C14, the case that refutes it: with the one degenerate line (1,1)-(1,1)
\* as source and destination, every point of every polyline is (1, 1) up to
\* rounding, and some point is not the linear sample.
C14_GridCollapses ==
    /\ op = "warp_grid"
    /\ lineSets = <<Window(LinePool, 2, 1), Window(LinePool, 2, 1)>>
    /\ Len(gridLines) > 0
    /\ result.status = "ok"
    /\ \A g \in 1..Len(gridLines), j \in 1..(samplesPerLine + 1) :
          PointsClose(result.polylines[g][j], Pt(1, 1))
    /\ \E g \in 1..Len(gridLines), j \in 1..(samplesPerLine + 1) :
          ~PointsClose(result.polylines[g][j],
                       LinearSample(gridLines[g], j - 1, samplesPerLine))

InitKernel ==
    /\ rasters \in {<<Raster(13, 2, c)>> : c \in {10, 150}}
    /\ lineSets \in KernelLineSetPairs
    /\ weightVec = <<>>
    /\ alphaArg = Zero
    /\ warpParams \in ParamPool
    /\ gridLines = <<>>
    /\ samplesPerLine = 1
    /\ op = "none"
    /\ result = [status |-> "none"]
    /\ app = NoWindow

NextKernel == Kernel \/ Warp

SpecKernel == InitKernel /\ [][NextKernel]_vars

\* C17: with the single line P = (0, 0), Q = (10, 0) as source and as
\* destination LineSet, the source position the kernel produces equals X,
\* for every point X of a row (u < 0, 0 <= u <= 1 and u > 1) and for every
\* destination pixel of a raster.
C17_AxisLineIsIdentity ==
    lineSets = << <<AxisLine>>, <<AxisLine>> >>
        => /\ op = "kernel" => result.positions = result.points
           /\ op = "warp"
                => \A y \in 0..(rasters[1].h - 1), x \in 0..(rasters[1].w - 1) :
                      SourcePosition(x, y) = Pt(x, y)

\* C17 happens: the kernel has run on a row with a point in each of the
\* three regions u < 0, 0 <= u <= 1 and u > 1 of the line.
C17_ThreeRegionsMapped ==
    /\ op = "kernel"
    /\ lineSets = << <<AxisLine>>, <<AxisLine>> >>
    /\ \E i \in 1..Len(result.points) :
          FLt(compute_uv(result.points[i], AxisLine[1], AxisLine[2])[1], Zero)
    /\ \E i \in 1..Len(result.points) :
          /\ FLt(Zero, compute_uv(result.points[i], AxisLine[1], AxisLine[2])[1])
          /\ FLt(compute_uv(result.points[i], AxisLine[1], AxisLine[2])[1], One)
    /\ \E i \in 1..Len(result.points) :
          FLt(One, compute_uv(result.points[i], AxisLine[1], AxisLine[2])[1])
    /\ result.positions = result.points

\* ------------------------------------------------------------------------
\* Specification of the calls as operations on the caller's objects
\* ------------------------------------------------------------------------

InitFrame ==
    /\ rasters \in RasterLists
    /\ lineSets \in LineSetLists
    /\ weightVec \in FrameWeightLists
    /\ alphaArg = FDiv(One, FromInt(4))
    /\ warpParams = DefaultParams
    /\ gridLines = generate_grid(2, 1, 1).lines
    /\ samplesPerLine = 1
    /\ op = "none"
    /\ result = [status |-> "none"]
    /\ app = NoWindow

NextFrame ==
    \/ CallWarp \/ CallInterpolate \/ CallInterpolateMany \/ CallBlend
    \/ CallBlendMany \/ CallGenerateGrid \/ CallWarpGrid \/ CallMerge

SpecFrame == InitFrame /\ [][NextFrame]_vars

\* C19: no core operation (warp, interpolate, interpolateMany, blend,
\* blendMany, generateGrid, warpGrid, mergeMultiple) modifies any of its
\* arguments: after the call the caller's rasters, LineSets, weight list and
\* lists of them are the objects they were, also when mergeMultiple resizes
\* rasters and rescales their LineSets, and every object returned was built
\* by the call.  The raster mergeMultiple returns is the merged raster.
C19_ArgumentsUnchanged ==
    op = "call"
        => \A args \in {ArgHeap} :
             /\ Len(result.heap) >= Len(args)
             /\ \A id \in 1..Len(args) : result.heap[id] = args[id]
             /\ \A k \in 1..Len(result.ret) : result.ret[k] > Len(args)
             /\ result.status = "ok" => Len(result.ret) >= 1
             /\ (result.name = "merge" /\ result.status = "ok")
                   => result.heap[result.ret[1]]
                        = merge_multiple_images(rasters, lineSets, weightVec,
                                                warpParams.a, warpParams.b,
                                                warpParams.p).merged

\* C19 happens: mergeMultiple has resized the second raster, put the
\* rescaled copy of its LineSet of at least one line into adjusted_line_sets,
\* and returned; the caller's LineSet is as it was.
C19_MergeResized ==
    /\ op = "call"
    /\ result.name = "merge"
    /\ result.status = "ok"
    /\ Len(rasters) >= 2
    /\ rasters[2].w # rasters[1].w
    /\ Len(lineSets[2]) >= 1
    /\ \A adjusted_line_sets \in {result.heap[Len(ArgHeap) + 4]} :
          /\ adjusted_line_sets[2] > Len(ArgHeap)
          /\ result.heap[adjusted_line_sets[2]]
                = ScaleLines(lineSets[2],
                             FDiv(FromInt(rasters[1].w), FromInt(rasters[2].w)),
                             FDiv(FromInt(rasters[1].h), FromInt(rasters[2].h)))
    /\ result.heap[LineSetId(2)] = lineSets[2]

\* ------------------------------------------------------------------------
\* Specification of the pixel loop of warp with its runs in any order
\* ------------------------------------------------------------------------

InitOrder ==
    /\ rasters \in {<<Raster(3, 2, c)>> : c \in {10, 150}}
    /\ lineSets \in OrderLineSetPairs
    /\ weightVec = <<>>
    /\ alphaArg = Zero
    /\ warpParams \in ParamPool
    /\ gridLines = <<>>
    /\ samplesPerLine = 1
    /\ op = "none"
    /\ result = [status |-> "none"]
    /\ app = NoWindow

NextOrder == BeginWarp \/ WritePixel \/ JoinWarp

SpecOrder == InitOrder /\ [][NextOrder]_vars

\* C20: in warp the value of output pixel (x, y) depends only on (x, y), the
\* source raster, the two LineSets and the parameters, and each output slot
\* is written exactly once: in whatever order the pixels are computed, a
\* slot that has been written holds the pixel of the sequential loop and has
\* been written once, a slot not yet written holds 0, and after the join
\* the raster is the raster the sequential row-by-row loop returns.
C20_OrderIndependent ==
    op \in {"warping", "warped"}
        => \A sequential \in {warp_image_with_lines(rasters[1], lineSets[1],
                                                    lineSets[2], warpParams.a,
                                                    warpParams.b, warpParams.p)} :
             /\ sequential.status = "ok"
             /\ \A y \in 0..(rasters[1].h - 1), x \in 0..(rasters[1].w - 1) :
                   /\ result.writes[y][x] \in {0, 1}
                   /\ result.writes[y][x] = 1
                         => result.image.px[y][x] = sequential.image.px[y][x]
                   /\ result.writes[y][x] = 0 => result.image.px[y][x] = 0
                   /\ op = "warped" => result.writes[y][x] = 1
             /\ op = "warped" => result.image = sequential.image

\* C20 happens: the last pixel of the raster has been computed before the
\* first one, with a non-empty destination LineSet.
C20_LastPixelFirst ==
    /\ op = "warping"
    /\ Len(lineSets[2]) > 0
    /\ result.writes[rasters[1].h - 1][rasters[1].w - 1] = 1
    /\ result.writes[0][0] = 0
    /\ result.image.px[rasters[1].h - 1][rasters[1].w - 1] # 0

\* ------------------------------------------------------------------------
\* Specification of the loops of generate_grid, one step per iteration
\* ------------------------------------------------------------------------

\* The most lines a call appends here: the loops of a call that does not
\* end are followed up to this many lines.
MaxGridLines == 64

\* Spacings of the calls: negative, zero, and positive ones that divide the
\* sizes or do not.
LoopSpacingPool == {-3, 0, 1, 7, 10}

\* grid_lines = []; y = 0
GridEnter ==
    /\ op = "none"
    /\ op' = "grid_rows"
    /\ \E width \in GridWidthPool, height \in GridHeightPool,
          grid_spacing \in LoopSpacingPool :
          result' = [args |-> <<width, height, grid_spacing>>, y |-> 0, x |-> 0,
                     rows |-> 0, columns |-> 0, lines |-> <<>>]
    /\ UNCHANGED inputs

\* One iteration of the first loop: y <= height holds, a horizontal line is
\* appended and y advances.
GridRow ==
    /\ op = "grid_rows"
    /\ result.y <= result.args[2]
    /\ Len(result.lines) < MaxGridLines
    /\ result' = [result EXCEPT
                    !.lines = Append(@, <<Pt(0, result.y),
                                          Pt(result.args[1], result.y)>>),
                    !.y = @ + result.args[3],
                    !.rows = @ + 1]
    /\ UNCHANGED <<op, inputs>>

\* The first loop ends: y <= height fails; x = 0.
GridRowsEnd ==
    /\ op = "grid_rows"
    /\ ~(result.y <= result.args[2])
    /\ op' = "grid_columns"
    /\ result' = [result EXCEPT !.x = 0]
    /\ UNCHANGED inputs

\* A faulty variant of GridColumn, which advances y instead of x.
GridColumnAdvancesY ==
    /\ op = "grid_columns"
    /\ result.x <= result.args[1]
    /\ Len(result.lines) < MaxGridLines
    /\ result' = [result EXCEPT
                    !.lines = Append(@, <<Pt(result.x, 0),
                                          Pt(result.x, result.args[2])>>),
                    !.y = @ + result.args[3],
                    !.columns = @ + 1]
    /\ UNCHANGED <<op, inputs>>

\* One iteration of the second loop: x <= width holds, a vertical line is
\* appended and x advances.
GridColumn ==
    /\ op = "grid_columns"
    /\ result.x <= result.args[1]
    /\ Len(result.lines) < MaxGridLines
    /\ result' = [result EXCEPT
                    !.lines = Append(@, <<Pt(result.x, 0),
                                          Pt(result.x, result.args[2])>>),
                    !.x = @ + result.args[3],
                    !.columns = @ + 1]
    /\ UNCHANGED <<op, inputs>>

\* The second loop ends: x <= width fails; return grid_lines.
GridReturn ==
    /\ op = "grid_columns"
    /\ ~(result.x <= result.args[1])
    /\ op' = "grid_returned"
    /\ UNCHANGED <<result, inputs>>

InitGridLoop ==
    /\ rasters = <<>>
    /\ lineSets = <<>>
    /\ weightVec = <<>>
    /\ alphaArg = Zero
    /\ warpParams = DefaultParams
    /\ gridLines = <<>>
    /\ samplesPerLine = 1
    /\ op = "none"
    /\ result = [status |-> "none"]
    /\ app = NoWindow

NextGridLoop == GridEnter \/ GridRow \/ GridRowsEnd \/ GridColumn \/ GridReturn

\* A call that has been made runs on: whenever a next statement of the call
\* can be executed, it is.
SpecGridLoop ==
    InitGridLoop /\ [][NextGridLoop]_vars /\ WF_vars(NextGridLoop)

\* C26: generateGrid terminates exactly when spacing > 0, for any width and
\* height >= 0: a call with spacing > 0 returns, its first loop having made
\* floor(height / spacing) + 1 iterations and its second one
\* floor(width / spacing) + 1; in a call with spacing <= 0 the loop variable
\* never exceeds the bound, the first loop is never left and the call never
\* returns.
C26_GridTerminatesIffPositive ==
    /\ [](op \in {"grid_rows", "grid_columns", "grid_returned"}
            => /\ result.args[3] <= 0
                    => (op = "grid_rows" /\ result.y <= result.args[2])
               /\ op = "grid_returned"
                    => /\ result.rows = (result.args[2] \div result.args[3]) + 1
                       /\ result.columns
                            = (result.args[1] \div result.args[3]) + 1
                       /\ result.lines
                            = generate_grid(result.args[1], result.args[2],
                                            result.args[3]).lines)
    /\ (op = "grid_rows" /\ result.args[3] > 0) ~> (op = "grid_returned")

\* C26 happens: generateGrid(40, 20, 7) has returned after 3 and 6
\* iterations of its loops.
C26_GridOfSevenReturned ==
    /\ op = "grid_returned"
    /\ result.args = <<40, 20, 7>>
    /\ result.rows = 3
    /\ result.columns = 6

\* ------------------------------------------------------------------------
\* The window (main.py): its state variables and the handlers of its events
\* ------------------------------------------------------------------------

CANVAS_WIDTH == 400

CANVAS_HEIGHT == 300

\* The most lines drawn on one canvas here.
MaxDrawn == 2

\* imageN_original = None
NoImage == [w |-> 0, h |-> 0, px |-> <<>>]

\* current_line_start = None
NoPoint == <<>>

\* A canvas after delete("all"): no image and no grid on it.
Blank == [image |-> NoImage, grid |-> <<>>]

\* The state variables of main() after the window has been built; the
\* three images, the three line lists and the four output canvases are
\* kept as sequences.  pc is where the handler that is running has got to
\* ("idle": none is running), handled the number of events its
\* root.update() has handled.  animations are the animations started, each
\* with the variables of its closure; escape is the animation whose
\* stop_animation is bound to <Escape> (0: none), escaped the number of
\* animations that had been started when ESC was pressed last, and showing
\* the frame on the output canvases: <<animation, index>>.
Constructed ==
    [window               |-> "main",
     is_three_image_mode  |-> FALSE,
     image_original       |-> <<NoImage, NoImage, NoImage>>,
     lines_image          |-> << <<>>, <<>>, <<>> >>,
     current_line_start   |-> NoPoint,
     expecting_image_num  |-> 1,
     alpha_var            |-> "0.5",
     show_grid_var        |-> FALSE,
     weight_var           |-> <<FDiv(FromInt(333), FromInt(1000)),
                               FDiv(FromInt(333), FromInt(1000)),
                               FDiv(FromInt(334), FromInt(1000))>>,
     outputs              |-> <<Blank, Blank, Blank, Blank>>,
     pc                   |-> "idle",
     handled              |-> 0,
     animations           |-> <<>>,
     escape               |-> 0,
     escaped              |-> 0,
     showing              |-> <<0, -1>>]

\* clear_lines() applied to the window w.
clear_lines(w) ==
    [w EXCEPT !.lines_image = << <<>>, <<>>, <<>> >>,
              !.expecting_image_num = 1,
              !.current_line_start = NoPoint,
              !.outputs = <<Blank, Blank, Blank, Blank>>]

\* toggle_mode() applied to the window w: the mode flips and the lines are
\* cleared.
toggle_mode(w) ==
    clear_lines([w EXCEPT !.is_three_image_mode = ~w.is_three_image_mode])

\* on_canvas_press(event, canvas, image_num) applied to the window w.
on_canvas_press(w, event, image_num) ==
    IF image_num # w.expecting_image_num THEN w
    ELSE [w EXCEPT !.current_line_start = event]

\* dist < 5 for the drag from start to line_end.
DragTooShort(start, line_end) ==
    FLt(FSqrt(FromInt((line_end[1] - start[1]) * (line_end[1] - start[1])
                      + (line_end[2] - start[2]) * (line_end[2] - start[2]))),
        FromInt(5))

\* The canvas expected after a line on canvas image_num.
NextExpected(w, image_num) ==
    IF w.is_three_image_mode THEN (image_num % 3) + 1
    ELSE IF image_num = 1 THEN 2 ELSE 1

\* A faulty variant of on_canvas_release, which adds the line on whichever
\* canvas the button is released.
OnCanvasReleaseAnywhere(w, event, image_num) ==
    IF w.current_line_start = NoPoint THEN w
    ELSE IF DragTooShort(w.current_line_start, event)
         THEN [w EXCEPT !.current_line_start = NoPoint]
    ELSE [w EXCEPT !.lines_image[image_num] =
                       Append(@, <<w.current_line_start, event>>),
                   !.expecting_image_num = NextExpected(w, image_num),
                   !.current_line_start = NoPoint]

\* on_canvas_release(event, canvas, image_num) applied to the window w.
on_canvas_release(w, event, image_num) ==
    IF w.current_line_start = NoPoint THEN w
    ELSE IF image_num # w.expecting_image_num THEN w
    ELSE IF DragTooShort(w.current_line_start, event)
         THEN [w EXCEPT !.current_line_start = NoPoint]
    ELSE [w EXCEPT !.lines_image[image_num] =
                       Append(@, <<w.current_line_start, event>>),
                   !.expecting_image_num = NextExpected(w, image_num),
                   !.current_line_start = NoPoint]

\* Positions of the mouse events: drags of length 5, 3 and 4 between them.
EventPoints == {<<0, 0>>, <<3, 4>>, <<3, 0>>}

\* <Button-1> on canvas image_num.
CanvasPress ==
    /\ app.window = "main"
    /\ \E image_num \in 1..3, event \in EventPoints :
          /\ op' = "on_canvas_press"
          /\ result' = [status |-> "ok", image_num |-> image_num, event |-> event]
          /\ app' = on_canvas_press(app, event, image_num)
    /\ UNCHANGED <<rasters, lineSets, weightVec, alphaArg, warpParams,
                   gridLines, samplesPerLine>>

\* <ButtonRelease-1> on canvas image_num.
CanvasRelease ==
    /\ app.window = "main"
    /\ \E image_num \in 1..3, event \in EventPoints :
          /\ Len(on_canvas_release(app, event, image_num).lines_image[image_num])
                <= MaxDrawn
          /\ op' = "on_canvas_release"
          /\ result' = [status |-> "ok", image_num |-> image_num, event |-> event]
          /\ app' = on_canvas_release(app, event, image_num)
    /\ UNCHANGED <<rasters, lineSets, weightVec, alphaArg, warpParams,
                   gridLines, samplesPerLine>>

\* A click on the mode button.
ToggleMode ==
    /\ app.window = "main"
    /\ op' = "toggle_mode"
    /\ result' = [status |-> "ok"]
    /\ app' = toggle_mode(app)
    /\ UNCHANGED <<rasters, lineSets, weightVec, alphaArg, warpParams,
                   gridLines, samplesPerLine>>

\* A click on 'Clear Lines'.
ClearLines ==
    /\ app.window = "main"
    /\ op' = "clear_lines"
    /\ result' = [status |-> "ok"]
    /\ app' = clear_lines(app)
    /\ UNCHANGED <<rasters, lineSets, weightVec, alphaArg, warpParams,
                   gridLines, samplesPerLine>>

\* ------------------------------------------------------------------------
\* Specification of the drawing of lines on the three canvases
\* ------------------------------------------------------------------------

InitCanvas ==
    /\ rasters = <<>>
    /\ lineSets = <<>>
    /\ weightVec = <<>>
    /\ alphaArg = Zero
    /\ warpParams = DefaultParams
    /\ gridLines = <<>>
    /\ samplesPerLine = 1
    /\ op = "none"
    /\ result = [status |-> "none"]
    /\ app = Constructed

NextCanvas == CanvasPress \/ CanvasRelease \/ ToggleMode \/ ClearLines

SpecCanvas == InitCanvas /\ [][NextCanvas]_vars

\* The lengths of the three line lists are in step with the expected canvas.
ListsInStep(w) ==
    \A n1 \in {Len(w.lines_image[1])}, n2 \in {Len(w.lines_image[2])},
       n3 \in {Len(w.lines_image[3])} :
      IF w.is_three_image_mode
      THEN /\ n1 >= n2 /\ n2 >= n3 /\ n3 >= n1 - 1
           /\ w.expecting_image_num \in 1..3
           /\ (n1 = n2 /\ n2 = n3) <=> (w.expecting_image_num = 1)
      ELSE /\ n3 = 0
           /\ w.expecting_image_num \in 1..2
           /\ w.expecting_image_num = 1 => n1 - n2 = 0
           /\ w.expecting_image_num = 2 => n1 - n2 = 1

\* C27: after any sequence of canvas press and release events, mode toggles
\* and 'Clear Lines' clicks the line lists are in step with the expected
\* canvas: in 2-image mode len(lines1) - len(lines2) is 0 when canvas 1 is
\* expected and 1 when canvas 2 is, canvas 3 is never expected and lines3 is
\* empty; in 3-image mode len(lines1) >= len(lines2) >= len(lines3) >=
\* len(lines1) - 1, all equal exactly when canvas 1 is expected.  A release
\* on another canvas than the expected one, or a drag shorter than 5 pixels,
\* adds no line and leaves the expected canvas; a mode toggle or a clear
\* empties the three lists and expects canvas 1.
C27_ListsInStep ==
    /\ [](ListsInStep(app))
    /\ [][/\ (/\ op' = "on_canvas_release"
              /\ \/ result'.image_num # app.expecting_image_num
                 \/ app.current_line_start = NoPoint
                 \/ DragTooShort(app.current_line_start, result'.event))
                => /\ app'.lines_image = app.lines_image
                   /\ app'.expecting_image_num = app.expecting_image_num
          /\ op' \in {"toggle_mode", "clear_lines"}
                => /\ app'.lines_image = << <<>>, <<>>, <<>> >>
                   /\ app'.expecting_image_num = 1
          /\ op' = "on_canvas_press"
                => app'.lines_image = app.lines_image]_vars

\* C27 happens: in 3-image mode a line has been drawn on canvas 1 and one on
\* canvas 2 after a complete triplet, canvas 3 is expected, and the button
\* has just been released on canvas 1, which added nothing.
C27_WrongCanvasReleased ==
    /\ app.is_three_image_mode
    /\ Len(app.lines_image[1]) = 2
    /\ Len(app.lines_image[2]) = 2
    /\ Len(app.lines_image[3]) = 1
    /\ app.expecting_image_num = 3
    /\ op = "on_canvas_release"
    /\ result.image_num = 1
    /\ app.current_line_start # NoPoint

\* ------------------------------------------------------------------------
\* 'Set Alpha and Run' (set_alpha_and_run)
\* ------------------------------------------------------------------------

\* The most events one root.update() handles here.
MaxPending == 1

\* float(text) for the texts of the alpha entry used here.
ParseFloat(text) ==
    CASE text = "0.5" -> [status |-> "ok", nan |-> FALSE,
                          value |-> FDiv(One, FromInt(2))]
      [] text = "1"   -> [status |-> "ok", nan |-> FALSE, value |-> One]
      [] text = "1.5" -> [status |-> "ok", nan |-> FALSE,
                          value |-> FDiv(FromInt(3), FromInt(2))]
      [] text = "nan" -> [status |-> "ok", nan |-> TRUE, value |-> Zero]
      [] OTHER        -> [status |-> "ValueError"]

AlphaTexts == {"0.5", "1", "1.5", "nan", "abc"}

\* 0.0 <= alpha <= 1.0
AlphaInRange(parsed) ==
    /\ ~parsed.nan
    /\ ~FLt(parsed.value, Zero)
    /\ ~FLt(One, parsed.value)

\* Whether an image has been loaded into the slot.
Loaded(img) == img.w > 0

\* The checks at the head of set_alpha_and_run: the message it shows and
\* returns with, or "pass".
SetAlphaChecks(w) ==
    IF ParseFloat(w.alpha_var).status # "ok" THEN "ValueError"
    ELSE IF ~AlphaInRange(ParseFloat(w.alpha_var)) THEN "alpha_range"
    ELSE IF w.is_three_image_mode THEN "three_image_mode"
    ELSE IF ~Loaded(w.image_original[1]) \/ ~Loaded(w.image_original[2])
         THEN "load_images"
    ELSE IF Len(w.lines_image[1]) = 0 \/ Len(w.lines_image[2]) = 0
         THEN "no_line_pair"
    ELSE IF Len(w.lines_image[1]) # Len(w.lines_image[2]) THEN "lines_mismatch"
    ELSE "pass"

\* scale_lines_to_image(lines_canvas, canvas_width, canvas_height,
\* image_width, image_height)
scale_lines_to_image(lines_canvas, canvas_width, canvas_height, image_width, image_height) ==
    Value({[i \in 1..Len(lines_canvas) |->
              << <<FMul(FromInt(lines_canvas[i][1][1]), scale_x),
                   FMul(FromInt(lines_canvas[i][1][2]), scale_y)>>,
                 <<FMul(FromInt(lines_canvas[i][2][1]), scale_x),
                   FMul(FromInt(lines_canvas[i][2][2]), scale_y)>> >>] :
           scale_x \in {FDiv(FromInt(image_width), FromInt(canvas_width))},
           scale_y \in {FDiv(FromInt(image_height), FromInt(canvas_height))}})

\* lines2_scaled of set_alpha_and_run: the lines of image 2 in the
\* coordinates of the resized image 2.
Lines2Scaled(w) ==
    Value({Value({IF img2.w # img1.w \/ img2.h # img1.h
                  THEN ScaleLines(scaled,
                                  FDiv(FromInt(img1.w), FromInt(img2.w)),
                                  FDiv(FromInt(img1.h), FromInt(img2.h)))
                  ELSE scaled :
                  scaled \in {scale_lines_to_image(w.lines_image[2],
                                                   CANVAS_WIDTH, CANVAS_HEIGHT,
                                                   img2.w, img2.h)}}) :
           img1 \in {w.image_original[1]}, img2 \in {w.image_original[2]}})

\* The record of a call of warp: the LineSets handed to it.
WarpCalled(source_lines, dest_lines) ==
    [fn |-> "warp", source |-> source_lines, dest |-> dest_lines]

\* The grid overlay of a canvas: nothing without 'show grid'.
Overlay(w, source_lines, dest_lines) ==
    IF ~w.show_grid_var THEN <<>>
    ELSE warp_grid_points(generate_grid(w.image_original[1].w,
                                        w.image_original[1].h, 30).lines,
                          source_lines, dest_lines, DefaultParams.a,
                          DefaultParams.b, DefaultParams.p, 20).polylines

\* The end of set_alpha_and_run, given the two warps: the blend and the
\* four canvases.
SetAlphaDisplay(w, alpha, lines1, lines2, interp, warped1, warped2, calls) ==
    Value({IF blended.status # "ok"
           THEN [status |-> "failed", calls |-> calls, outputs |-> w.outputs]
           ELSE [status  |-> "complete",
                 calls   |-> calls,
                 outputs |-> Value({<<[image |-> warped1.image, grid |-> grid1],
                                      [image |-> warped2.image,
                                       grid  |-> Overlay(w, lines2, interp)],
                                      Blank,
                                      [image |-> blended.image, grid |-> grid1]>> :
                                    grid1 \in {Overlay(w, lines1, interp)}})] :
           blended \in {blend_images(warped1.image, warped2.image, alpha)}})

\* set_alpha_and_run from the scaling of the lines on, on the window as it
\* is after the first root.update(): [status, calls, outputs].  An
\* exception ends the computation and leaves the canvases.
SetAlphaWarps(w, alpha, lines1, lines2, interp) ==
    Value({IF warped1.status # "ok"
           THEN [status |-> "failed", calls |-> <<WarpCalled(lines1, interp)>>,
                 outputs |-> w.outputs]
           ELSE Value({IF warped2.status # "ok"
                       THEN [status  |-> "failed",
                             calls   |-> <<WarpCalled(lines1, interp),
                                           WarpCalled(lines2, interp)>>,
                             outputs |-> w.outputs]
                       ELSE SetAlphaDisplay(w, alpha, lines1, lines2, interp,
                                            warped1, warped2,
                                            <<WarpCalled(lines1, interp),
                                              WarpCalled(lines2, interp)>>) :
                       warped2 \in {warp_image_with_lines(
                                       Resize(w.image_original[2],
                                              w.image_original[1].w,
                                              w.image_original[1].h),
                                       lines2, interp, DefaultParams.a,
                                       DefaultParams.b, DefaultParams.p)}}) :
           warped1 \in {warp_image_with_lines(w.image_original[1], lines1, interp,
                                              DefaultParams.a, DefaultParams.b,
                                              DefaultParams.p)}})

SetAlphaRun(w) ==
    Value({Value({IF interp.status # "ok"
                  THEN [status |-> "failed", calls |-> <<>>, outputs |-> w.outputs]
                  ELSE SetAlphaWarps(w, alpha, lines1, lines2, interp.lines) :
                  interp \in {interpolate_lines(lines1, lines2, alpha)}}) :
           alpha \in {ParseFloat(w.alpha_var).value},
           lines1 \in {scale_lines_to_image(w.lines_image[1], CANVAS_WIDTH,
                                            CANVAS_HEIGHT, w.image_original[1].w,
                                            w.image_original[1].h)},
           lines2 \in {Lines2Scaled(w)}})

\* A click on 'Set Alpha and Run': the checks; a run that passes them goes
\* on to its first root.update().
SetAlphaClick ==
    /\ app.window = "main"
    /\ app.pc = "idle"
    /\ op' = "set_alpha_and_run"
    /\ \E check \in {SetAlphaChecks(app)} :
          IF check = "pass"
          THEN /\ app' = [app EXCEPT !.pc = "update", !.handled = 0]
               /\ result' = [status |-> "computing", calls |-> <<>>,
                             before |-> app.outputs]
          ELSE /\ app' = app
               /\ result' = [status |-> check, calls |-> <<>>,
                             before |-> app.outputs]
    /\ UNCHANGED <<rasters, lineSets, weightVec, alphaArg, warpParams,
                   gridLines, samplesPerLine>>

\* root.update() inside a handler handles an event that is pending: a press
\* or a release on a canvas, a click on 'Clear Lines' or on the mode button.
UpdateHandles ==
    /\ app.window = "main"
    /\ app.pc = "update"
    /\ app.handled < MaxPending
    /\ \E handled \in {[app EXCEPT !.handled = @ + 1]} :
          \/ \E image_num \in 1..3, event \in EventPoints :
                app' = on_canvas_press(handled, event, image_num)
          \/ \E image_num \in 1..3, event \in EventPoints :
                /\ Len(on_canvas_release(app, event, image_num).lines_image[image_num])
                      <= MaxDrawn
                /\ app' = on_canvas_release(handled, event, image_num)
          \/ app' = clear_lines(handled)
          \/ app' = toggle_mode(handled)
    /\ UNCHANGED <<rasters, lineSets, weightVec, alphaArg, warpParams,
                   gridLines, samplesPerLine, op, result>>

\* The rest of set_alpha_and_run after the update.
SetAlphaCompute ==
    /\ app.window = "main"
    /\ app.pc = "update"
    /\ op = "set_alpha_and_run"
    /\ \E run \in {SetAlphaRun(app)} :
          /\ app' = [app EXCEPT !.pc = "idle", !.outputs = run.outputs]
          /\ result' = [status |-> run.status, calls |-> run.calls,
                        before |-> result.before]
    /\ UNCHANGED <<rasters, lineSets, weightVec, alphaArg, warpParams,
                   gridLines, samplesPerLine, op>>

\* ------------------------------------------------------------------------
\* Specification of 'Set Alpha and Run' with the events its update handles
\* ------------------------------------------------------------------------

DrawnA == << <<0, 0>>, <<3, 4>> >>

DrawnB == << <<3, 4>>, <<0, 0>> >>

\* Line lists the drawing handlers lead to, with the mode and the canvas
\* expected next: [mode, lines, expecting].
DrawnStates ==
    {[mode |-> FALSE, lines |-> << <<>>, <<>>, <<>> >>, expecting |-> 1],
     [mode |-> FALSE, lines |-> << <<DrawnA>>, <<>>, <<>> >>, expecting |-> 2],
     [mode |-> FALSE, lines |-> << <<DrawnA>>, <<DrawnB>>, <<>> >>, expecting |-> 1],
     [mode |-> FALSE, lines |-> << <<DrawnA, DrawnB>>, <<DrawnB>>, <<>> >>,
      expecting |-> 2],
     [mode |-> FALSE, lines |-> << <<DrawnA, DrawnB>>, <<DrawnB, DrawnA>>, <<>> >>,
      expecting |-> 1],
     [mode |-> TRUE, lines |-> << <<>>, <<>>, <<>> >>, expecting |-> 1],
     [mode |-> TRUE, lines |-> << <<DrawnA>>, <<DrawnB>>, <<>> >>, expecting |-> 3],
     [mode |-> TRUE, lines |-> << <<DrawnA>>, <<DrawnB>>, <<DrawnA>> >>,
      expecting |-> 1]}

\* The windows a click on 'Set Alpha and Run' finds: images loaded or not,
\* image 2 of the size of image 1 or not, lines drawn, the button of the
\* mouse held down on the expected canvas or not, a text in the alpha entry.
RunWindows ==
    {[Constructed EXCEPT !.is_three_image_mode = drawn.mode,
                         !.lines_image = drawn.lines,
                         !.expecting_image_num = drawn.expecting,
                         !.image_original = <<image1, image2, NoImage>>,
                         !.current_line_start = start,
                         !.alpha_var = text,
                         !.show_grid_var = show_grid] :
       drawn \in DrawnStates,
       image1 \in {NoImage, Raster(2, 2, 10)},
       image2 \in {NoImage, Raster(2, 2, 150), Raster(3, 2, 77)},
       start \in {NoPoint, <<0, 0>>},
       text \in AlphaTexts,
       show_grid \in BOOLEAN}

InitRun ==
    /\ rasters = <<>>
    /\ lineSets = <<>>
    /\ weightVec = <<>>
    /\ alphaArg = Zero
    /\ warpParams = DefaultParams
    /\ gridLines = <<>>
    /\ samplesPerLine = 1
    /\ op = "none"
    /\ result = [status |-> "none"]
    /\ app \in RunWindows

NextRun == SetAlphaClick \/ UpdateHandles \/ SetAlphaCompute

SpecRun == InitRun /\ [][NextRun]_vars

\* C28, as claimed: 'Set Alpha and Run' calls warp and blend only when
\* alpha parses to a number in [0, 1], the window is in 2-image mode, both
\* images are loaded and lines1 and lines2 are non-empty and of equal
\* length; otherwise no warp is computed and the four output canvases are
\* as the click found them (where no other handler has run since); hence
\* no two LineSets of different length are handed to warp.
C28_WarpOnlyWhenChecked ==
    (op = "set_alpha_and_run" /\ app.pc = "idle")
        => /\ result.calls # <<>> => SetAlphaChecks(app) = "pass"
           /\ (result.status # "complete" /\ app.handled = 0)
                 => (result.calls = <<>> /\ app.outputs = result.before)
           /\ \A i \in 1..Len(result.calls) :
                 Len(result.calls[i].source) = Len(result.calls[i].dest)

\* C28, what holds: a run that calls warp has passed the checks when it was
\* clicked, and hands LineSets of equal length to warp; a run that fails a
\* check calls nothing and leaves the canvases.
C28_CheckedAtClick ==
    (op = "set_alpha_and_run" /\ app.pc = "idle")
        => /\ result.calls # <<>>
                => /\ ParseFloat(app.alpha_var).status = "ok"
                   /\ AlphaInRange(ParseFloat(app.alpha_var))
                   /\ Loaded(app.image_original[1])
                   /\ Loaded(app.image_original[2])
           /\ result.status \notin {"complete", "failed"}
                 => (result.calls = <<>> /\ app.outputs = result.before)
           /\ \A i \in 1..Len(result.calls) :
                 Len(result.calls[i].source) = Len(result.calls[i].dest)

\* C28, the case that refutes it: the run has passed its checks, its
\* root.update() has handled a click on 'Clear Lines' or on the mode button,
\* and it has then called warp with the empty line lists and shown the
\* result.
C28_WarpedAfterClear ==
    /\ op = "set_alpha_and_run"
    /\ app.pc = "idle"
    /\ result.status = "complete"
    /\ Len(result.calls) = 2
    /\ result.calls[1].source = <<>>
    /\ app.lines_image = << <<>>, <<>>, <<>> >>
    /\ app.outputs[1] # Blank

\* ------------------------------------------------------------------------
\* 'Merge Three Images' (merge_three_images)
\* ------------------------------------------------------------------------

\* The checks at the head of merge_three_images: the message it shows and
\* returns with, or "pass".
MergeThreeChecks(w) ==
    IF ~w.is_three_image_mode THEN "two_image_mode"
    ELSE IF \E k \in 1..3 : ~Loaded(w.image_original[k]) THEN "load_images"
    ELSE IF \E k \in 1..3 : Len(w.lines_image[k]) = 0 THEN "no_line_triplet"
    ELSE IF ~(Len(w.lines_image[1]) = Len(w.lines_image[2])
              /\ Len(w.lines_image[2]) = Len(w.lines_image[3]))
         THEN "lines_mismatch"
    ELSE "pass"

\* lines1_scaled, lines2_scaled, lines3_scaled of merge_three_images.
LinesScaled(w) ==
    [k \in 1..3 |-> scale_lines_to_image(w.lines_image[k], CANVAS_WIDTH,
                                         CANVAS_HEIGHT, w.image_original[k].w,
                                         w.image_original[k].h)]

\* The source LineSet handed to warp_grid_points for the overlay of image
\* k: linesk_scaled.
OverlayLines(w, scaled, k) == scaled[k]

\* The canvases after a merge: the three warped images and the merged one,
\* with their overlays under 'show grid'.
MergeThreeOutputs(w, scaled, merged) ==
    Value({<<[image |-> merged.warped[1], grid |-> grid1],
             [image |-> merged.warped[2],
              grid  |-> Overlay(w, OverlayLines(w, scaled, 2), merged.shared)],
             [image |-> merged.warped[3],
              grid  |-> Overlay(w, OverlayLines(w, scaled, 3), merged.shared)],
             [image |-> merged.merged, grid |-> grid1]>> :
           grid1 \in {Overlay(w, OverlayLines(w, scaled, 1), merged.shared)}})

\* merge_three_images from the scaling of the lines on: [status, outputs,
\* overlay_pairs, warp_pairs]: the pair of LineSets each overlay was
\* computed with, and the pair the warp of each image was called with
\* inside merge_multiple_images.  An exception leaves the canvases.
MergeThreeRun(w) ==
    Value({Value({IF merged.status # "ok"
                  THEN [status |-> "failed", outputs |-> w.outputs,
                        overlay_pairs |-> <<>>, warp_pairs |-> <<>>]
                  ELSE [status  |-> "complete",
                        outputs |-> MergeThreeOutputs(w, scaled, merged),
                        overlay_pairs |->
                            IF w.show_grid_var
                            THEN [k \in 1..3 |-> <<OverlayLines(w, scaled, k),
                                                   merged.shared>>]
                            ELSE <<>>,
                        warp_pairs |->
                            [k \in 1..3 |->
                               <<AdjustedLineSets(w.image_original, scaled)[k],
                                 merged.shared>>]] :
                  merged \in {merge_multiple_images(w.image_original, scaled,
                                                    w.weight_var, DefaultParams.a,
                                                    DefaultParams.b,
                                                    DefaultParams.p)}}) :
           scaled \in {LinesScaled(w)}})

\* A click on 'Merge Three Images': the checks; a run that passes them goes
\* on to its first root.update().
MergeThreeClick ==
    /\ app.window = "main"
    /\ app.pc = "idle"
    /\ op' = "merge_three_images"
    /\ \E check \in {MergeThreeChecks(app)} :
          IF check = "pass"
          THEN /\ app' = [app EXCEPT !.pc = "update", !.handled = 0]
               /\ result' = [status |-> "computing", overlay_pairs |-> <<>>,
                             warp_pairs |-> <<>>]
          ELSE /\ app' = app
               /\ result' = [status |-> check, overlay_pairs |-> <<>>,
                             warp_pairs |-> <<>>]
    /\ UNCHANGED <<rasters, lineSets, weightVec, alphaArg, warpParams,
                   gridLines, samplesPerLine>>

\* The rest of merge_three_images after the update.
MergeThreeCompute ==
    /\ app.window = "main"
    /\ app.pc = "update"
    /\ op = "merge_three_images"
    /\ \E run \in {MergeThreeRun(app)} :
          /\ app' = [app EXCEPT !.pc = "idle", !.outputs = run.outputs]
          /\ result' = [status |-> run.status,
                        overlay_pairs |-> run.overlay_pairs,
                        warp_pairs |-> run.warp_pairs]
    /\ UNCHANGED <<rasters, lineSets, weightVec, alphaArg, warpParams,
                   gridLines, samplesPerLine, op>>

\* ------------------------------------------------------------------------
\* Specification of 'Merge Three Images'
\* ------------------------------------------------------------------------

\* The windows a click on 'Merge Three Images' finds: images 2 and 3 of
\* the size of image 1 or not.
MergeWindows ==
    {[Constructed EXCEPT !.is_three_image_mode = drawn.mode,
                         !.lines_image = drawn.lines,
                         !.expecting_image_num = drawn.expecting,
                         !.image_original = <<image1, image2, image3>>,
                         !.current_line_start = start,
                         !.show_grid_var = show_grid] :
       drawn \in DrawnStates,
       image1 \in {Raster(2, 2, 10)},
       image2 \in {Raster(2, 2, 150), Raster(3, 2, 77)},
       image3 \in {NoImage, Raster(2, 2, 77), Raster(2, 3, 150)},
       start \in {NoPoint, <<0, 0>>},
       show_grid \in BOOLEAN}

InitMergeThree ==
    /\ rasters = <<>>
    /\ lineSets = <<>>
    /\ weightVec = <<>>
    /\ alphaArg = Zero
    /\ warpParams = DefaultParams
    /\ gridLines = <<>>
    /\ samplesPerLine = 1
    /\ op = "none"
    /\ result = [status |-> "none"]
    /\ app \in MergeWindows

NextMergeThree == MergeThreeClick \/ UpdateHandles \/ MergeThreeCompute

SpecMergeThree == InitMergeThree /\ [][NextMergeThree]_vars

\* C25, as claimed: in the three-image merge action the grid overlay of
\* image k is computed with the pair (sourceLines, destLines) the raster
\* warp of image k was called with inside mergeMultiple, also when image 2
\* or 3 has another size than image 1 and mergeMultiple rescales its
\* LineSet before the warp.
C25_OverlayUsesWarpPair ==
    (op = "merge_three_images" /\ result.status = "complete"
                               /\ app.show_grid_var)
        => \A k \in 1..3 : result.overlay_pairs[k] = result.warp_pairs[k]

\* C25, what holds: the overlay of image k is computed with the pair of the
\* warp of image k when image k has the size of image 1.
C25_OverlayOfSameSize ==
    (op = "merge_three_images" /\ result.status = "complete"
                               /\ app.show_grid_var)
        => \A k \in 1..3 :
              (/\ app.image_original[k].w = app.image_original[1].w
               /\ app.image_original[k].h = app.image_original[1].h)
                 => result.overlay_pairs[k] = result.warp_pairs[k]

\* C25, the case that refutes it: image 2 is wider than image 1, the merge
\* has completed with the grid shown, and the overlay of image 2 was
\* computed with another source LineSet than the warp of image 2.
C25_OverlayOfResizedDiffers ==
    /\ op = "merge_three_images"
    /\ result.status = "complete"
    /\ app.show_grid_var
    /\ app.image_original[2].w # app.image_original[1].w
    /\ Len(result.warp_pairs[2][1]) >= 1
    /\ result.overlay_pairs[2][1] # result.warp_pairs[2][1]
    /\ result.overlay_pairs[2][2] = result.warp_pairs[2][2]
    /\ result.overlay_pairs[1] = result.warp_pairs[1]

\* ------------------------------------------------------------------------
\* Animations (animations.py): the frames, the timer callbacks and ESC
\* ------------------------------------------------------------------------

\* len(alpha_steps)
AlphaSteps == 11

\* The most animations started here.
MaxAnimations == 2

\* The checks at the head of create_warp_animation.
WarpAnimationChecks(w) ==
    IF w.is_three_image_mode THEN "three_image_mode"
    ELSE IF ~Loaded(w.image_original[1]) \/ ~Loaded(w.image_original[2])
         THEN "load_images"
    ELSE IF Len(w.lines_image[1]) = 0 \/ Len(w.lines_image[2]) = 0
         THEN "no_line_pair"
    ELSE IF Len(w.lines_image[1]) # Len(w.lines_image[2]) THEN "lines_mismatch"
    ELSE "pass"

\* The variables of the closure of an animation over n precomputed frames,
\* which are known by their indices 0 .. n - 1, before its first
\* animate_frame(); pending tells whether root.after holds a callback of
\* it, and trail is the indices of the last three frames it has displayed
\* (-1: none).
Closure(n) ==
    [frames            |-> n,
     animation_running |-> TRUE,
     current_frame     |-> 0,
     direction         |-> 1,
     pending           |-> FALSE,
     status            |-> "ok",
     trail             |-> <<-1, -1, -1>>]

\* A faulty variant of Advance, which turns round onto the end frame it
\* has just shown.
AdvanceOntoEnd(c) ==
    IF c.current_frame + c.direction >= c.frames
    THEN [c EXCEPT !.current_frame = c.frames - 1, !.direction = -1]
    ELSE IF c.current_frame + c.direction < 0
    THEN [c EXCEPT !.current_frame = 0, !.direction = 1]
    ELSE [c EXCEPT !.current_frame = @ + c.direction]

\* current_frame += direction, and the reversal at the two ends.
Advance(c) ==
    IF c.current_frame + c.direction >= c.frames
    THEN [c EXCEPT !.current_frame = c.frames - 2, !.direction = -1]
    ELSE IF c.current_frame + c.direction < 0
    THEN [c EXCEPT !.current_frame = 1, !.direction = 1]
    ELSE [c EXCEPT !.current_frame = @ + c.direction]

\* animate_frame() of animation id in the window w, the callback having
\* been taken from the timers: [window, displayed, scheduled].
animate_frame(w, id) ==
    Value({IF ~c.animation_running
           THEN [window    |-> [w EXCEPT !.animations[id].pending = FALSE],
                 displayed |-> FALSE, scheduled |-> FALSE]
           ELSE IF c.current_frame \notin 0..(c.frames - 1)
           THEN [window    |-> [w EXCEPT !.animations[id].pending = FALSE,
                                         !.animations[id].status = "IndexError"],
                 displayed |-> FALSE, scheduled |-> FALSE]
           ELSE [window    |-> [w EXCEPT
                                  !.showing = <<id, c.current_frame>>,
                                  !.animations[id] =
                                      [Advance(c) EXCEPT
                                         !.pending = TRUE,
                                         !.trail = <<c.trail[2], c.trail[3],
                                                     c.current_frame>>]],
                 displayed |-> TRUE, scheduled |-> TRUE] :
           c \in {w.animations[id]}})

\* The end of create_warp_animation and of create_sequential_animation
\* over n frames: the closure, root.bind('<Escape>', stop_animation) and the
\* first animate_frame().  The events that the calls of root.update()
\* handle while the frames are computed find the window as it was before
\* the click: they are the steps before this one.
StartAnimation(w, n) ==
    animate_frame([w EXCEPT !.animations = Append(@, Closure(n)),
                            !.escape = Len(w.animations) + 1],
                  Len(w.animations) + 1).window

\* A click on 'Warp Animation': create_warp_animation.
StartWarpAnimation ==
    /\ app.window = "main"
    /\ app.pc = "idle"
    /\ Len(app.animations) < MaxAnimations
    /\ op' = "create_warp_animation"
    /\ \E check \in {WarpAnimationChecks(app)} :
          /\ result' = [status |-> check]
          /\ app' = IF check = "pass" THEN StartAnimation(app, AlphaSteps)
                    ELSE app
    /\ UNCHANGED <<rasters, lineSets, weightVec, alphaArg, warpParams,
                   gridLines, samplesPerLine>>

\* A click on 'Sequential Animation': create_sequential_animation, whose
\* frames are those of 1 -> 2 and those of 2 -> 3 but the first.
StartSequentialAnimation ==
    /\ app.window = "main"
    /\ app.pc = "idle"
    /\ Len(app.animations) < MaxAnimations
    /\ op' = "create_sequential_animation"
    /\ \E check \in {MergeThreeChecks(app)} :
          /\ result' = [status |-> check]
          /\ app' = IF check = "pass"
                    THEN StartAnimation(app, AlphaSteps + (AlphaSteps - 1))
                    ELSE app
    /\ UNCHANGED <<rasters, lineSets, weightVec, alphaArg, warpParams,
                   gridLines, samplesPerLine>>

\* The timer of root.after runs out: the callback animate_frame of an
\* animation is called.
TimerFires ==
    /\ app.window = "main"
    /\ \E id \in 1..Len(app.animations) :
          /\ app.animations[id].pending
          /\ \E called \in {animate_frame(app, id)} :
                /\ op' = "animate_frame"
                /\ result' = [status |-> "ok", animation |-> id,
                              displayed |-> called.displayed,
                              scheduled |-> called.scheduled]
                /\ app' = called.window
    /\ UNCHANGED <<rasters, lineSets, weightVec, alphaArg, warpParams,
                   gridLines, samplesPerLine>>

\* The ESC key: the stop_animation that is bound to <Escape> is called.
PressEscape ==
    /\ app.window = "main"
    /\ op' = "stop_animation"
    /\ result' = [status |-> "ok"]
    /\ app' = IF app.escape = 0
              THEN [app EXCEPT !.escaped = Len(app.animations)]
              ELSE [app EXCEPT !.escaped = Len(app.animations),
                               !.animations[app.escape].animation_running = FALSE]
    /\ UNCHANGED <<rasters, lineSets, weightVec, alphaArg, warpParams,
                   gridLines, samplesPerLine>>

\* ------------------------------------------------------------------------
\* Specification of the playing of an animation
\* ------------------------------------------------------------------------

\* The windows a click on an animation button finds.
AnimationWindows ==
    {[Constructed EXCEPT !.is_three_image_mode = drawn.mode,
                         !.lines_image = drawn.lines,
                         !.expecting_image_num = drawn.expecting,
                         !.image_original = <<image1, image2, image3>>] :
       drawn \in DrawnStates,
       image1 \in {Raster(2, 2, 10)},
       image2 \in {NoImage, Raster(3, 2, 77)},
       image3 \in {NoImage, Raster(2, 2, 150)}}

InitPlay ==
    /\ rasters = <<>>
    /\ lineSets = <<>>
    /\ weightVec = <<>>
    /\ alphaArg = Zero
    /\ warpParams = DefaultParams
    /\ gridLines = <<>>
    /\ samplesPerLine = 1
    /\ op = "none"
    /\ result = [status |-> "none"]
    /\ app \in AnimationWindows

\* One animation is started, and plays until ESC is pressed.
NextPlay ==
    \/ (app.animations = <<>> /\ StartWarpAnimation)
    \/ (app.animations = <<>> /\ StartSequentialAnimation)
    \/ TimerFires
    \/ PressEscape

SpecPlay == InitPlay /\ [][NextPlay]_vars

\* The last three frames an animation over n frames has displayed are
\* three consecutive ones of the order 0, 1, ..., n-1, n-2, ..., 1, 0, 1, ...
PingPong(trail, n) ==
    /\ trail[3] \in -1..(n - 1)
    /\ trail[2] = -1 => trail[3] \in {-1, 0}
    /\ trail[2] # -1
         => /\ trail[3] \in 0..(n - 1)
            /\ trail[3] - trail[2] \in {-1, 1}
            /\ trail[1] = -1 => (trail[2] = 0 /\ trail[3] = 1)
            /\ trail[1] # -1
                 => IF trail[2] \in {0, n - 1}
                    THEN trail[3] = trail[1]
                    ELSE trail[3] - trail[2] = trail[2] - trail[1]

\* C29: while an animation plays over N >= 2 precomputed frames the index
\* of the frame displayed is within 0 .. N-1 and follows the ping-pong
\* order 0, 1, ..., N-1, N-2, ..., 1, 0, 1, ...: the direction reverses
\* exactly at the two end frames, an end frame is shown once per sweep, and
\* consecutive indices differ by exactly 1.
C29_PingPongOrder ==
    \A id \in 1..Len(app.animations) :
       \A c \in {app.animations[id]} :
          /\ c.frames >= 2
          /\ c.status = "ok"
          /\ PingPong(c.trail, c.frames)
          /\ (op = "animate_frame" /\ result.animation = id /\ result.displayed)
                => app.showing = <<id, c.trail[3]>>

\* C29 happens: the sequential animation has played forwards to its last
\* frame and back to its first one, and shows frame 1 again.
C29_SecondSweepBegun ==
    /\ Len(app.animations) = 1
    /\ app.animations[1].frames = 21
    /\ app.animations[1].trail = <<1, 0, 1>>
    /\ app.animations[1].animation_running
    /\ app.showing = <<1, 1>>

\* ------------------------------------------------------------------------
\* Specification of ESC with one animation or several started
\* ------------------------------------------------------------------------

NextEscape ==
    StartWarpAnimation \/ StartSequentialAnimation \/ TimerFires \/ PressEscape

SpecEscape == InitPlay /\ [][NextEscape]_vars

\* C30, as claimed: once ESC is pressed, every animation started before the
\* key press stops: no callback of it displays another frame or schedules
\* itself again, also when the animation button was clicked a second time
\* while an earlier animation was playing.
C30_EscapeStopsAll ==
    (op = "animate_frame" /\ result.animation <= app.escaped)
        => (~result.displayed /\ ~result.scheduled)

\* C30, what holds: once ESC is pressed, the animation started last before
\* the key press stops.
C30_EscapeStopsLast ==
    /\ (op = "animate_frame" /\ result.animation = app.escaped)
          => (~result.displayed /\ ~result.scheduled)
    /\ \A id \in 1..Len(app.animations) :
          id = app.escaped => ~app.animations[id].animation_running

\* C30, the case that refutes it: two animations had been started when ESC
\* was pressed; the second one has stopped, and a callback of the first one
\* has then displayed a frame and scheduled itself again.
C30_FirstAnimationPlaysOn ==
    /\ Len(app.animations) = 2
    /\ app.escaped = 2
    /\ ~app.animations[2].animation_running
    /\ ~app.animations[2].pending
    /\ app.animations[1].animation_running
    /\ op = "animate_frame"
    /\ result.animation = 1
    /\ result.displayed
    /\ result.scheduled
    /\ app.animations[1].pending

====
